---- MODULE Spec2Model ----
(***************************************************************************)
(* Throttle Me, Bananas!  Rule evaluation, access accounting and the       *)
(* navigation handler of the service worker.                               *)
(*                                                                         *)
(* Strings that the code inspects character by character (domains, site    *)
(* patterns, URLs) are sequences of one-character strings; the scheme of a *)
(* URL ("https://", "chrome://", ...) is the first element.  Instants are  *)
(* milliseconds since the epoch, as Date.now() returns them; the local     *)
(* timezone is UTC.                                                        *)
(***************************************************************************)
EXTENDS Integers, Sequences, FiniteSets, TLC

\* ------------------------------------------------------------------------
\* Bounds of the model
\* ------------------------------------------------------------------------
\* longest access log kept / drawn
MaxLogs == 2
\* whole minutes the clock may run past the base instant
MaxMinutes == 2

\* ------------------------------------------------------------------------
\* String helpers (String.prototype.*)
\* ------------------------------------------------------------------------
Min(a, b) == IF a <= b THEN a ELSE b
Max(a, b) == IF a >= b THEN a ELSE b

\* s.startsWith(p)
StartsWith(s, p) == Len(s) >= Len(p) /\ SubSeq(s, 1, Len(p)) = p
\* s.endsWith(p)
EndsWith(s, p) == Len(s) >= Len(p) /\ SubSeq(s, Len(s) - Len(p) + 1, Len(s)) = p
\* s.indexOf(c) + 1, 0 when c does not occur
IndexOf(s, c) ==
  IF \E i \in 1..Len(s) : s[i] = c
  THEN CHOOSE i \in 1..Len(s) : s[i] = c /\ \A j \in 1..(i - 1) : s[j] # c
  ELSE 0
\* first index of s whose character is in cs, Len(s)+1 when there is none
FirstOf(s, cs) ==
  IF \E i \in 1..Len(s) : s[i] \in cs
  THEN CHOOSE i \in 1..Len(s) : s[i] \in cs /\ \A j \in 1..(i - 1) : s[j] \notin cs
  ELSE Len(s) + 1
\* pattern.split('/')[0]
patternDomainOf(pattern) ==
  IF IndexOf(pattern, "/") = 0 THEN pattern
  ELSE SubSeq(pattern, 1, IndexOf(pattern, "/") - 1)
\* pattern.split('/').slice(1).join('/')
patternPathOf(pattern) ==
  IF IndexOf(pattern, "/") = 0 THEN << >>
  ELSE SubSeq(pattern, IndexOf(pattern, "/") + 1, Len(pattern))

\* ------------------------------------------------------------------------
\* url-matcher
\* ------------------------------------------------------------------------
HierSchemes == {"https://", "http://", "chrome://", "chrome-extension://", "edge://"}
OpaqueSchemes == {"about:"}
\* new URL(url) throws
InvalidUrl(url) ==
  \/ Len(url) = 0
  \/ url[1] \notin (HierSchemes \cup OpaqueSchemes)
  \/ /\ url[1] \in {"https://", "http://"}
     /\ FirstOf(Tail(url), {"/", "?", "#", ":"}) = 1
\* the URL parser lowercases the host
ToLowerChar(c) == CASE c = "D" -> "d" [] c = "E" -> "e" [] OTHER -> c
ToLower(s) == [i \in 1..Len(s) |-> ToLowerChar(s[i])]

extractDomain(url) ==
  IF InvalidUrl(url) THEN << >>
  ELSE IF url[1] \in OpaqueSchemes THEN << >>
  ELSE ToLower(SubSeq(Tail(url), 1, FirstOf(Tail(url), {"/", "?", "#", ":"}) - 1))

extractPath(url) ==
  IF InvalidUrl(url) THEN << >>
  ELSE IF url[1] \in OpaqueSchemes THEN SubSeq(Tail(url), 1, FirstOf(Tail(url), {"?", "#"}) - 1)
  ELSE LET rest == Tail(url)
           from == FirstOf(rest, {"/", "?", "#"})
           tail == SubSeq(rest, from, Len(rest))
       IN IF Len(tail) = 0 \/ tail[1] # "/" THEN <<"/">>
          ELSE SubSeq(tail, 1, FirstOf(tail, {"?", "#"}) - 1)

\* variant: the domain matches when it ends with the pattern's domain
matchesSitePatternSuffix(url, pattern) ==
  LET domain == extractDomain(url)
      path == extractPath(url)
      patternDomain == patternDomainOf(pattern)
      patternPath == patternPathOf(pattern)
      domainMatches == EndsWith(domain, patternDomain)
      normalizedPath == IF StartsWith(path, <<"/">>) THEN Tail(path) ELSE path
  IN IF Len(domain) = 0 \/ Len(pattern) = 0 THEN FALSE
     ELSE IF ~domainMatches THEN FALSE
     ELSE IF Len(patternPath) = 0 THEN TRUE
     ELSE normalizedPath = patternPath \/ StartsWith(normalizedPath, patternPath \o <<"/">>)

matchesSitePattern(url, pattern) ==
  LET domain == extractDomain(url)
      path == extractPath(url)
      patternDomain == patternDomainOf(pattern)
      patternPath == patternPathOf(pattern)
      domainMatches == domain = patternDomain \/ EndsWith(domain, <<".">> \o patternDomain)
      normalizedPath == IF StartsWith(path, <<"/">>) THEN Tail(path) ELSE path
  IN IF Len(domain) = 0 \/ Len(pattern) = 0 THEN FALSE
     ELSE IF ~domainMatches THEN FALSE
     ELSE IF Len(patternPath) = 0 THEN TRUE
     ELSE normalizedPath = patternPath \/ StartsWith(normalizedPath, patternPath \o <<"/">>)

\* `https://${site}`
siteUrlOf(site) == <<"https://">> \o site

\* ------------------------------------------------------------------------
\* time-utils
\* ------------------------------------------------------------------------
MsPerMinute == 60 * 1000
MsPerDay == 24 * 60 * MsPerMinute
\* Date.prototype.getDay(): 1 January 1970 was a Thursday
getDay(t) == (4 + (t \div MsPerDay)) % 7
getHours(t) == (t % MsPerDay) \div (60 * MsPerMinute)
getMinutes(t) == (t % (60 * MsPerMinute)) \div MsPerMinute

\* a time range literal "HHMM-HHMM" is the pair of its two digit strings
parseTimeRange(timeString) ==
  [start |-> [hours |-> 10 * timeString[1][1] + timeString[1][2],
              minutes |-> 10 * timeString[1][3] + timeString[1][4]],
   end |-> [hours |-> 10 * timeString[2][1] + timeString[2][2],
            minutes |-> 10 * timeString[2][3] + timeString[2][4]]]

\* variant: the end minute is outside the range
isTimeInRangeEndExclusive(currentTime, startTime, endTime) ==
  LET currentMinutes == getHours(currentTime) * 60 + getMinutes(currentTime)
      startMinutes == startTime.hours * 60 + startTime.minutes
      endMinutes == endTime.hours * 60 + endTime.minutes
  IN currentMinutes >= startMinutes /\ currentMinutes < endMinutes

\* variant: a range whose start is later than its end wraps past midnight
isTimeInRangeWrapping(currentTime, startTime, endTime) ==
  LET currentMinutes == getHours(currentTime) * 60 + getMinutes(currentTime)
      startMinutes == startTime.hours * 60 + startTime.minutes
      endMinutes == endTime.hours * 60 + endTime.minutes
  IN IF startMinutes <= endMinutes
     THEN currentMinutes >= startMinutes /\ currentMinutes <= endMinutes
     ELSE currentMinutes >= startMinutes \/ currentMinutes <= endMinutes

isTimeInRange(currentTime, startTime, endTime) ==
  LET currentMinutes == getHours(currentTime) * 60 + getMinutes(currentTime)
      startMinutes == startTime.hours * 60 + startTime.minutes
      endMinutes == endTime.hours * 60 + endTime.minutes
  IN currentMinutes >= startMinutes /\ currentMinutes <= endMinutes

\* a schedule value: isNull (null / undefined), hasDays / hasTimes (the
\* property is present), days, times
NoSchedule == [isNull |-> TRUE, hasDays |-> FALSE, days |-> {}, hasTimes |-> FALSE, times |-> << >>]
MkSchedule(days, times) ==
  [isNull |-> FALSE, hasDays |-> TRUE, days |-> days, hasTimes |-> TRUE, times |-> times]

isRuleActiveNow(schedule, now) ==
  IF schedule.isNull \/ ~schedule.hasDays \/ ~schedule.hasTimes THEN TRUE
  ELSE IF getDay(now) \notin schedule.days THEN FALSE
  ELSE \E i \in 1..Len(schedule.times) :
         isTimeInRange(now, parseTimeRange(schedule.times[i]).start,
                            parseTimeRange(schedule.times[i]).end)

\* ------------------------------------------------------------------------
\* access-calculator
\* ------------------------------------------------------------------------
\* variant: the window excludes its boundary instant
filterAccessesInWindowExclusive(accesses, durationMinutes, now) ==
  LET windowStart == now - (durationMinutes * 60 * 1000)
  IN SelectSeq(accesses, LAMBDA access : access.timestamp > windowStart)

\* variant: no record ever leaves the window
filterAccessesInWindowKeepAll(accesses, durationMinutes, now) == accesses

filterAccessesInWindow(accesses, durationMinutes, now) ==
  LET windowStart == now - (durationMinutes * 60 * 1000)
  IN SelectSeq(accesses, LAMBDA access : access.timestamp >= windowStart)

\* the strict-mode predicate of calculateRemainingAccesses
strictSiteMatch(accessSite, sitePattern) ==
  LET patternDomain == patternDomainOf(sitePattern)
  IN accessSite = patternDomain \/ EndsWith(accessSite, <<".">> \o patternDomain)

\* variant: the result is not clamped at 0
calculateRemainingAccessesUnclamped(accesses, maxAccesses, durationMinutes, strictMode, sites, currentSite, now) ==
  LET recentAccesses == SelectSeq(accesses,
        LAMBDA access : access.timestamp >= now - (durationMinutes * 60 * 1000))
      relevantAccesses ==
        IF strictMode
        THEN SelectSeq(recentAccesses,
               LAMBDA access : \E k \in 1..Len(sites) : strictSiteMatch(access.site, sites[k]))
        ELSE SelectSeq(recentAccesses, LAMBDA access : access.site = currentSite)
  IN maxAccesses - Len(relevantAccesses)

\* variant: non-strict mode matches the record's site as a domain pattern
calculateRemainingAccessesByDomain(accesses, maxAccesses, durationMinutes, strictMode, sites, currentSite, now) ==
  LET recentAccesses == SelectSeq(accesses,
        LAMBDA access : access.timestamp >= now - (durationMinutes * 60 * 1000))
      relevantAccesses ==
        IF strictMode
        THEN SelectSeq(recentAccesses,
               LAMBDA access : \E k \in 1..Len(sites) : strictSiteMatch(access.site, sites[k]))
        ELSE SelectSeq(recentAccesses, LAMBDA access : strictSiteMatch(access.site, currentSite))
  IN Max(0, maxAccesses - Len(relevantAccesses))

calculateRemainingAccesses(accesses, maxAccesses, durationMinutes, strictMode, sites, currentSite, now) ==
  LET recentAccesses == filterAccessesInWindow(accesses, durationMinutes, now)
      relevantAccesses ==
        IF strictMode
        THEN SelectSeq(recentAccesses,
               LAMBDA access : \E k \in 1..Len(sites) : strictSiteMatch(access.site, sites[k]))
        ELSE SelectSeq(recentAccesses, LAMBDA access : access.site = currentSite)
      accessCount == Len(relevantAccesses)
      remaining == maxAccesses - accessCount
  IN Max(0, remaining)

\* ------------------------------------------------------------------------
\* rule-engine
\* ------------------------------------------------------------------------
\* a configuration value: isNull (null), hasGroups (the property is present), groups
NullConfig == [isNull |-> TRUE, hasGroups |-> FALSE, groups |-> << >>]
MkConfig(groups) == [isNull |-> FALSE, hasGroups |-> TRUE, groups |-> groups]

\* variant: the schedule is not consulted
getActiveRulesForSiteAnyTime(site, config, now) ==
  IF config.isNull \/ ~config.hasGroups THEN << >>
  ELSE SelectSeq(config.groups,
         LAMBDA group : \E k \in 1..Len(group.sites) :
                          matchesSitePattern(siteUrlOf(site), group.sites[k]))

getActiveRulesForSite(site, config, now) ==
  IF config.isNull \/ ~config.hasGroups THEN << >>
  ELSE SelectSeq(config.groups,
         LAMBDA group :
           IF ~isRuleActiveNow(group.schedule, now) THEN FALSE
           ELSE \E k \in 1..Len(group.sites) :
                  matchesSitePattern(siteUrlOf(site), group.sites[k]))

\* variant: a maxAccesses of 0 is taken as "no limit"
remainingOfZeroUnlimited(rule, site, accessLogs, now) ==
  IF rule.maxAccesses = 0 THEN 1
  ELSE calculateRemainingAccesses(accessLogs, rule.maxAccesses, rule.duration,
                                  rule.strictMode, rule.sites, site, now)

remainingOf(rule, site, accessLogs, now) ==
  calculateRemainingAccesses(accessLogs, rule.maxAccesses, rule.duration,
                             rule.strictMode, rule.sites, site, now)

NoBlock == [block |-> FALSE, ruleName |-> "", duration |-> 0, maxAccesses |-> 0]

RECURSIVE blockLoopNegative(_, _, _, _, _)
\* variant: a rule blocks only when its remaining count is below 0
blockLoopNegative(activeRules, i, site, accessLogs, now) ==
  IF i > Len(activeRules) THEN NoBlock
  ELSE IF remainingOf(activeRules[i], site, accessLogs, now) < 0
       THEN [block |-> TRUE, ruleName |-> activeRules[i].name,
             duration |-> activeRules[i].duration,
             maxAccesses |-> activeRules[i].maxAccesses]
       ELSE blockLoopNegative(activeRules, i + 1, site, accessLogs, now)

RECURSIVE blockLoopLast(_, _, _, _, _)
\* variant: the last exhausted rule is reported
blockLoopLast(activeRules, i, site, accessLogs, now) ==
  IF i > Len(activeRules) THEN NoBlock
  ELSE LET later == blockLoopLast(activeRules, i + 1, site, accessLogs, now)
       IN IF later.block THEN later
          ELSE IF remainingOf(activeRules[i], site, accessLogs, now) <= 0
          THEN [block |-> TRUE, ruleName |-> activeRules[i].name,
                duration |-> activeRules[i].duration,
                maxAccesses |-> activeRules[i].maxAccesses]
          ELSE NoBlock

RECURSIVE blockLoop(_, _, _, _, _)
\* the for loop of shouldBlockAccess, from index i on
blockLoop(activeRules, i, site, accessLogs, now) ==
  IF i > Len(activeRules) THEN NoBlock
  ELSE IF remainingOf(activeRules[i], site, accessLogs, now) <= 0
       THEN [block |-> TRUE, ruleName |-> activeRules[i].name,
             duration |-> activeRules[i].duration,
             maxAccesses |-> activeRules[i].maxAccesses]
       ELSE blockLoop(activeRules, i + 1, site, accessLogs, now)

\* variant: only the first active rule is checked
shouldBlockAccessFirstRuleOnly(site, config, accessLogs, now) ==
  LET activeRules == getActiveRulesForSite(site, config, now)
  IN IF Len(activeRules) = 0 THEN NoBlock
     ELSE blockLoop(SubSeq(activeRules, 1, 1), 1, site, accessLogs, now)

shouldBlockAccess(site, config, accessLogs, now) ==
  LET activeRules == getActiveRulesForSite(site, config, now)
  IN IF Len(activeRules) = 0 THEN NoBlock
     ELSE blockLoop(activeRules, 1, site, accessLogs, now)

\* a number | null result
Null == [isNull |-> TRUE, value |-> 0]
Num(n) == [isNull |-> FALSE, value |-> n]
\* the accumulator lowestRemaining: Infinity or a number
Infinity == [inf |-> TRUE, value |-> 0]
\* variant: the first value stays in the accumulator
MathMinFirst(acc, n) == IF acc.inf THEN [inf |-> FALSE, value |-> n] ELSE acc
\* variant: the last value replaces the accumulator
MathMinLast(acc, n) == [inf |-> FALSE, value |-> n]
MathMin(acc, n) == IF acc.inf THEN [inf |-> FALSE, value |-> n]
                   ELSE [inf |-> FALSE, value |-> Min(acc.value, n)]

RECURSIVE lowestLoop(_, _, _, _, _, _)
\* the for loop of getMostRestrictiveCount, from index i on
lowestLoop(activeRules, i, lowestRemaining, site, accessLogs, now) ==
  IF i > Len(activeRules) THEN lowestRemaining
  ELSE lowestLoop(activeRules, i + 1,
                  MathMin(lowestRemaining, remainingOf(activeRules[i], site, accessLogs, now)),
                  site, accessLogs, now)

getMostRestrictiveCount(site, config, accessLogs, now) ==
  LET activeRules == getActiveRulesForSite(site, config, now)
      lowestRemaining == lowestLoop(activeRules, 1, Infinity, site, accessLogs, now)
  IN IF Len(activeRules) = 0 THEN Null
     ELSE IF lowestRemaining.inf THEN Null ELSE Num(lowestRemaining.value)

\* the timestamp of relevantLogs[0] after the sort
oldestTimestamp(logs) ==
  CHOOSE t \in {logs[i].timestamp : i \in 1..Len(logs)} :
    \A i \in 1..Len(logs) : t <= logs[i].timestamp

\* relevantLogs of calculateUnblockTime, before the sort
relevantLogsOf(site, rule, accessLogs) ==
  IF rule.strictMode
  THEN SelectSeq(accessLogs,
         LAMBDA log : \E k \in 1..Len(rule.sites) :
                        matchesSitePattern(siteUrlOf(log.site), rule.sites[k]))
  ELSE SelectSeq(accessLogs, LAMBDA log : log.site = site)

calculateUnblockTime(site, rule, accessLogs) ==
  LET relevantLogs == relevantLogsOf(site, rule, accessLogs)
  IN IF Len(relevantLogs) = 0 THEN Null
     ELSE Num(oldestTimestamp(relevantLogs) + (rule.duration * 60 * 1000))

\* ------------------------------------------------------------------------
\* storage/schema
\* ------------------------------------------------------------------------
ExampleCom == <<"e", "x", "a", "m", "p", "l", "e", ".", "c", "o", "m">>
AllDay == << <<0, 0, 0, 0>>, <<2, 4, 0, 0>> >>

DEFAULT_CONFIGURATION ==
  MkConfig(<< [name |-> "Example Rule - Delete Me", duration |-> 60, maxAccesses |-> 3,
               strictMode |-> FALSE, sites |-> <<ExampleCom>>,
               schedule |-> MkSchedule(0..6, <<AllDay>>)] >>)

\* validateRuleGroup(group).valid, on the fields whose type the model fixes
validateRuleGroup(group) ==
  /\ group.name # ""
  /\ group.duration > 0
  /\ group.maxAccesses > 0
  /\ Len(group.sites) # 0
  /\ \A k \in 1..Len(group.sites) : Len(group.sites[k]) # 0
  /\ \/ group.schedule.isNull
     \/ /\ group.schedule.hasDays
        /\ \A d \in group.schedule.days : ~(d < 0 \/ d > 6)
        /\ group.schedule.hasTimes

validateConfiguration(config) ==
  /\ ~config.isNull
  /\ config.hasGroups
  /\ \A i \in 1..Len(config.groups) : validateRuleGroup(config.groups[i])

\* typeof log.tabId; a record without the tabIdType field holds a number
typeofTabId(log) == IF "tabIdType" \in DOMAIN log THEN log.tabIdType ELSE "number"

\* variant: the tabId is not looked at
validateAccessLogNoTabId(log) ==
  /\ Len(log.site) # 0
  /\ log.timestamp > 0

validateAccessLog(log) ==
  /\ Len(log.site) # 0
  /\ log.timestamp > 0
  /\ typeofTabId(log) = "number"

\* ------------------------------------------------------------------------
\* Inputs: sites, URLs, rule groups, the clock
\* ------------------------------------------------------------------------
S_dc == <<"d", ".", "c">>
S_adc == <<"a", ".", "d", ".", "c">>
S_xdc == <<"x", "d", ".", "c">>
S_ec == <<"e", ".", "c">>
P_dcp == <<"d", ".", "c", "/", "p">>

U_dcp == <<"https://">> \o P_dcp
U_dc == <<"https://">> \o S_dc
U_ec == <<"https://">> \o S_ec
U_chrome == <<"chrome://", "x">>

Tabs == {1, 2}
NavUrls == {U_dcp, U_ec, U_chrome}
TransitionTypes == {"link", "reload"}
FrameIds == {0, 1}

\* the base instant is a Sunday, 00:00 local time
BaseInstant == 3 * MsPerDay
ClockGrid == {BaseInstant + k * MsPerMinute : k \in 0..MaxMinutes}
             \cup {BaseInstant + MaxMinutes * MsPerMinute + 1}

OnlyMinuteOne == << <<0, 0, 0, 1>>, <<0, 0, 0, 1>> >>

RuleA == [name |-> "A", duration |-> 1, maxAccesses |-> 1, strictMode |-> FALSE,
          sites |-> <<S_dc>>, schedule |-> NoSchedule]
RuleB == [name |-> "B", duration |-> 2, maxAccesses |-> 2, strictMode |-> FALSE,
          sites |-> <<S_dc, S_ec>>, schedule |-> NoSchedule]
RuleC == [name |-> "C", duration |-> 1, maxAccesses |-> 2, strictMode |-> TRUE,
          sites |-> <<P_dcp, S_ec>>, schedule |-> NoSchedule]
RuleD == [name |-> "D", duration |-> 1, maxAccesses |-> 1, strictMode |-> FALSE,
          sites |-> <<S_dc>>, schedule |-> MkSchedule({0}, <<OnlyMinuteOne>>)]
RuleZ == [name |-> "Z", duration |-> 1, maxAccesses |-> 0, strictMode |-> FALSE,
          sites |-> <<S_ec>>, schedule |-> NoSchedule]
RuleS == [name |-> "S", duration |-> 2, maxAccesses |-> 1, strictMode |-> TRUE,
          sites |-> <<S_dc, S_ec>>, schedule |-> NoSchedule]

\* configurations the settings page can have stored
StoredConfigs == {MkConfig(<<RuleA>>), MkConfig(<<RuleB, RuleA>>), MkConfig(<<RuleD, RuleC>>)}

\* ------------------------------------------------------------------------
\* State
\* ------------------------------------------------------------------------
VARIABLES
  clock,          \* Date.now()
  configuration,  \* chrome.storage.local 'configuration'
  accessLogs,     \* chrome.storage.local 'accessLogs'
  tabUrlMap,      \* service worker: last URL per tab, << >> when absent
  h,              \* the onCommitted handler of each tab, suspended at an await
  outcome,        \* what the last navigation handled to its end came to
  call            \* the last direct call of an engine function and its result

vars == <<clock, configuration, accessLogs, tabUrlMap, h, outcome, call>>

NoOutcome == [kind |-> "none", site |-> << >>, ruleName |-> "", unblockTime |-> Null]
IdleHandler == [pc |-> "idle", url |-> << >>, site |-> << >>, transitionType |-> "",
                config |-> NullConfig, logs |-> << >>, timestamp |-> 0]
NoCall == [op |-> "none", site |-> << >>, idx |-> 0, active |-> << >>,
           decision |-> NoBlock, count |-> Null, remaining |-> 0, kept |-> << >>,
           schedule |-> NoSchedule, range |-> << >>, url |-> << >>, pattern |-> << >>,
           flag |-> FALSE, logs |-> [isNull |-> FALSE, items |-> << >>], threw |-> FALSE,
           arg |-> NullConfig, start |-> 0, samples |-> << >>,
           defaults |-> DEFAULT_CONFIGURATION,
           currentConfig |-> NullConfig, saveTimeout |-> Null,
           storageVersion |-> Null, hasAccessLogs |-> TRUE,
           result |-> [storageVersion |-> Null, hasConfiguration |-> FALSE,
                       hasAccessLogs |-> FALSE]]

InFlight == {t \in Tabs : h[t].pc # "idle"}

\* storage-manager getConfiguration, on the stored value
getConfiguration(stored) ==
  IF stored.isNull THEN DEFAULT_CONFIGURATION
  ELSE IF ~validateConfiguration(stored) THEN DEFAULT_CONFIGURATION
  ELSE stored

Init ==
  /\ clock = BaseInstant
  /\ configuration \in StoredConfigs
  /\ validateConfiguration(configuration)
  /\ accessLogs = << >>
  /\ tabUrlMap = [t \in Tabs |-> << >>]
  /\ h = [t \in Tabs |-> IdleHandler]
  /\ outcome = NoOutcome
  /\ call = NoCall

\* ------------------------------------------------------------------------
\* service worker
\* ------------------------------------------------------------------------
RuntimeId == "EXTID"

shouldIgnoreUrl(url) ==
  \/ Len(url) = 0
  \/ url[1] \in {"chrome://", "chrome-extension://", "about:", "edge://"}

isOwnExtensionPage(url) == \E i \in 1..Len(url) : url[i] = RuntimeId

Finish(t, kind, site, ruleName, unblockTime) ==
  /\ h' = [h EXCEPT ![t] = IdleHandler]
  /\ outcome' = [kind |-> kind, site |-> site, ruleName |-> ruleName,
                 unblockTime |-> unblockTime]

\* variant: a tab without an entry counts as being on the same site
isRefreshMissingIsSame(lastUrl, site, transitionType) ==
  \/ Len(lastUrl) = 0
  \/ extractDomain(lastUrl) = site
  \/ transitionType = "reload"

\* variant: only a reload is a refresh
isRefreshReloadOnly(lastUrl, site, transitionType) == transitionType = "reload"

\* const isRefresh = (lastSite === site) || transitionType === 'reload'
isRefresh(lastUrl, site, transitionType) ==
  LET hasLast == Len(lastUrl) # 0
      lastSite == IF hasLast THEN extractDomain(lastUrl) ELSE << >>
  IN (hasLast /\ lastSite = site) \/ transitionType = "reload"

\* chrome.webNavigation.onCommitted fires: the handler up to its first await.
\* One handler per tab is in flight at a time, and no navigation starts when
\* the log could grow past MaxLogs.
onCommitted(t, url, transitionType, frameId) ==
  /\ h[t].pc = "idle"
  /\ Len(accessLogs) + Cardinality(InFlight) < MaxLogs
  /\ LET site == extractDomain(url)
         lastUrl == tabUrlMap[t]
     IN IF frameId # 0
        THEN /\ Finish(t, "subframe", << >>, "", Null)
             /\ UNCHANGED tabUrlMap
        ELSE IF shouldIgnoreUrl(url) \/ isOwnExtensionPage(url)
        THEN /\ Finish(t, "ignored", << >>, "", Null)
             /\ UNCHANGED tabUrlMap
        ELSE IF Len(site) = 0
        THEN /\ Finish(t, "nosite", << >>, "", Null)
             /\ UNCHANGED tabUrlMap
        ELSE IF isRefresh(lastUrl, site, transitionType)
        THEN /\ tabUrlMap' = [tabUrlMap EXCEPT ![t] = url]
             /\ h' = [h EXCEPT ![t] = [IdleHandler EXCEPT !.pc = "refreshBadge",
                                        !.url = url, !.site = site,
                                        !.transitionType = transitionType]]
             /\ UNCHANGED outcome
        ELSE /\ h' = [h EXCEPT ![t] = [IdleHandler EXCEPT !.pc = "getConfiguration",
                                        !.url = url, !.site = site,
                                        !.transitionType = transitionType]]
             /\ UNCHANGED <<tabUrlMap, outcome>>
  /\ UNCHANGED <<clock, configuration, accessLogs, call>>

\* await getConfiguration() resolves
GetConfiguration(t) ==
  /\ h[t].pc = "getConfiguration"
  /\ h' = [h EXCEPT ![t].pc = "getAccessLogs", ![t].config = getConfiguration(configuration)]
  /\ UNCHANGED <<clock, configuration, accessLogs, tabUrlMap, outcome, call>>

\* config.groups.find(g => g.name === ruleName)
findByName(config, ruleName) ==
  LET I == {i \in 1..Len(config.groups) : config.groups[i].name = ruleName}
  IN IF I = {} THEN 0 ELSE CHOOSE i \in I : \A j \in I : i <= j

\* await getAccessLogs() resolves; block decision; the start of addAccessLog
GetAccessLogs(t) ==
  /\ h[t].pc = "getAccessLogs"
  /\ LET logs == accessLogs
         blockDecision == shouldBlockAccess(h[t].site, h[t].config, logs, clock)
         r == findByName(h[t].config, blockDecision.ruleName)
         unblockTime == IF r = 0 THEN Null
                        ELSE calculateUnblockTime(h[t].site, h[t].config.groups[r], logs)
         timestamp == clock
         log == [site |-> h[t].site, timestamp |-> timestamp, tabId |-> t]
     IN IF blockDecision.block
        THEN Finish(t, "blocked", h[t].site, blockDecision.ruleName, unblockTime)
        ELSE IF ~validateAccessLog(log)
        THEN Finish(t, "error", h[t].site, "", Null)
        ELSE /\ h' = [h EXCEPT ![t].pc = "addRead", ![t].timestamp = timestamp]
             /\ UNCHANGED outcome
  /\ UNCHANGED <<clock, configuration, accessLogs, tabUrlMap, call>>

\* addAccessLog: await getAccessLogs() resolves, logs.push(log)
AddRead(t) ==
  /\ h[t].pc = "addRead"
  /\ h' = [h EXCEPT ![t].pc = "addWrite",
                    ![t].logs = Append(accessLogs,
                       [site |-> h[t].site, timestamp |-> h[t].timestamp, tabId |-> t])]
  /\ UNCHANGED <<clock, configuration, accessLogs, tabUrlMap, outcome, call>>

\* addAccessLog: await chrome.storage.local.set resolves; tabUrlMap.set
AddWrite(t) ==
  /\ h[t].pc = "addWrite"
  /\ accessLogs' = h[t].logs
  /\ tabUrlMap' = [tabUrlMap EXCEPT ![t] = h[t].url]
  /\ h' = [h EXCEPT ![t].pc = "badge", ![t].logs = << >>]
  /\ outcome' = [kind |-> "allowed", site |-> h[t].site, ruleName |-> "",
                 unblockTime |-> Null]
  /\ UNCHANGED <<clock, configuration, call>>

\* Math.max(...config.groups.map(g => g.duration), 0)
maxDurationOf(config) ==
  LET ds == {config.groups[i].duration : i \in 1..Len(config.groups)} \cup {0}
  IN CHOOSE d \in ds : \A e \in ds : e <= d

\* updateBadgeForTab has run (it only reads the storage and sets the badge
\* text); then the handler returns (refresh) or starts pruneOldAccessLogs
UpdateBadge(t) ==
  /\ h[t].pc \in {"badge", "refreshBadge"}
  /\ IF h[t].pc = "refreshBadge"
     THEN Finish(t, "refresh", h[t].site, "", Null)
     ELSE IF maxDurationOf(h[t].config) > 0
     THEN /\ h' = [h EXCEPT ![t].pc = "pruneRead"]
          /\ UNCHANGED outcome
     ELSE /\ h' = [h EXCEPT ![t] = IdleHandler]
          /\ UNCHANGED outcome
  /\ UNCHANGED <<clock, configuration, accessLogs, tabUrlMap, call>>

\* pruneOldAccessLogs: await getAccessLogs() resolves, the filter
PruneRead(t) ==
  /\ h[t].pc = "pruneRead"
  /\ LET maxAgeMinutes == maxDurationOf(h[t].config) * 2
         cutoffTime == clock - (maxAgeMinutes * 60 * 1000)
         filteredLogs == SelectSeq(accessLogs, LAMBDA log : log.timestamp >= cutoffTime)
         removed == Len(accessLogs) - Len(filteredLogs)
     IN IF removed > 0
        THEN h' = [h EXCEPT ![t].pc = "pruneWrite", ![t].logs = filteredLogs]
        ELSE h' = [h EXCEPT ![t] = IdleHandler]
  /\ UNCHANGED <<clock, configuration, accessLogs, tabUrlMap, outcome, call>>

\* pruneOldAccessLogs: await chrome.storage.local.set resolves
PruneWrite(t) ==
  /\ h[t].pc = "pruneWrite"
  /\ accessLogs' = h[t].logs
  /\ h' = [h EXCEPT ![t] = IdleHandler]
  /\ UNCHANGED <<clock, configuration, tabUrlMap, outcome, call>>

\* chrome.tabs.onRemoved
onRemoved(t) ==
  /\ Len(tabUrlMap[t]) # 0
  /\ tabUrlMap' = [tabUrlMap EXCEPT ![t] = << >>]
  /\ UNCHANGED <<clock, configuration, accessLogs, h, outcome, call>>

\* time passes
Tick ==
  /\ \E c \in ClockGrid : c > clock /\ clock' = c
  /\ UNCHANGED <<configuration, accessLogs, tabUrlMap, h, outcome, call>>

HandlerStep(t) ==
  \/ GetConfiguration(t)
  \/ GetAccessLogs(t)
  \/ AddRead(t)
  \/ AddWrite(t)
  \/ UpdateBadge(t)
  \/ PruneRead(t)
  \/ PruneWrite(t)

\* navigation events arrive at any time: handlers of different tabs interleave
Next ==
  \/ \E t \in Tabs, url \in NavUrls, tt \in TransitionTypes, f \in FrameIds :
       onCommitted(t, url, tt, f)
  \/ \E t \in Tabs : HandlerStep(t)
  \/ \E t \in Tabs : onRemoved(t)
  \/ Tick

Spec == Init /\ [][Next]_vars

\* a navigation event that arrives when no handler is suspended at an await
onCommittedSeq(t, url, transitionType, frameId) ==
  /\ InFlight = {}
  /\ onCommitted(t, url, transitionType, frameId)

\* each handler runs to completion before the next navigation event arrives
NextSeq ==
  \/ \E t \in Tabs, url \in NavUrls, tt \in TransitionTypes, f \in FrameIds :
       onCommittedSeq(t, url, tt, f)
  \/ \E t \in Tabs : HandlerStep(t)
  \/ \E t \in Tabs : onRemoved(t)
  \/ Tick

SpecSeq == Init /\ [][NextSeq]_vars

\* navigations, one at a time, among the pages of one site under one rule group
SameSiteUrls == {U_dcp, U_dc, U_chrome}

InitSameSite ==
  /\ Init
  /\ configuration = MkConfig(<<RuleA>>)

NextSameSite ==
  \/ \E t \in Tabs, url \in SameSiteUrls, tt \in TransitionTypes, f \in FrameIds :
       onCommittedSeq(t, url, tt, f)
  \/ \E t \in Tabs : HandlerStep(t)
  \/ \E t \in Tabs : onRemoved(t)
  \/ Tick

SpecSameSite == InitSameSite /\ [][NextSameSite]_vars

\* the service worker is stopped while no handler runs and started again:
\* const tabUrlMap = new Map()
workerRestart ==
  /\ InFlight = {}
  /\ tabUrlMap' = [t \in Tabs |-> << >>]
  /\ outcome' = [NoOutcome EXCEPT !.kind = "restart"]
  /\ UNCHANGED <<clock, configuration, accessLogs, h, call>>

NextRestart ==
  \/ \E t \in Tabs, url \in SameSiteUrls, tt \in TransitionTypes, f \in FrameIds :
       onCommittedSeq(t, url, tt, f)
  \/ \E t \in Tabs : HandlerStep(t)
  \/ \E t \in Tabs : onRemoved(t)
  \/ Tick
  \/ workerRestart

SpecRestart == InitSameSite /\ [][NextRestart]_vars

\* navigations, one at a time, to a domain and its subdomain under one rule
\* group whose pattern is the domain
U_adc == <<"https://">> \o S_adc
SubdomainUrls == {U_dc, U_adc, U_chrome}

NextSubdomain ==
  \/ \E t \in Tabs, url \in SubdomainUrls, tt \in TransitionTypes, f \in FrameIds :
       onCommittedSeq(t, url, tt, f)
  \/ \E t \in Tabs : HandlerStep(t)
  \/ \E t \in Tabs : onRemoved(t)
  \/ Tick

SpecSubdomain == InitSameSite /\ [][NextSubdomain]_vars

\* a second rule group with the name of RuleA, for another site
RuleA2 == [RuleA EXCEPT !.duration = 2, !.sites = <<S_ec>>]

\* navigations, one at a time, under two rule groups of the same name
InitSameName ==
  /\ clock = BaseInstant
  /\ configuration \in {MkConfig(<<RuleA2, RuleA>>), MkConfig(<<RuleA>>)}
  /\ validateConfiguration(configuration)
  /\ accessLogs = << >>
  /\ tabUrlMap = [t \in Tabs |-> << >>]
  /\ h = [t \in Tabs |-> IdleHandler]
  /\ outcome = NoOutcome
  /\ call = NoCall

SpecSameName == InitSameName /\ [][NextSeq]_vars

\* ------------------------------------------------------------------------
\* Direct calls of the engine functions on arbitrary inputs
\* ------------------------------------------------------------------------
NoGroupsConfig == [isNull |-> FALSE, hasGroups |-> FALSE, groups |-> << >>]
EngineSites == {S_dc, S_adc, S_xdc, S_ec}
EngineConfigs ==
  {NullConfig, NoGroupsConfig, MkConfig(<< >>), MkConfig(<<RuleA>>),
   MkConfig(<<RuleB, RuleA>>), MkConfig(<<RuleA, RuleB>>), MkConfig(<<RuleA, RuleA>>),
   MkConfig(<<RuleD, RuleC>>), MkConfig(<<RuleC, RuleZ>>), MkConfig(<<RuleZ, RuleB>>),
   MkConfig(<<RuleS>>), MkConfig(<<RuleD>>)}
EngineDurations == {1, 2}

\* access logs as the handler writes them: oldest first, none in the future
EngineLogs(now) ==
  LET Records == [site : EngineSites, timestamp : {c \in ClockGrid : c <= now}, tabId : {1}]
  IN {l \in UNION {[1..n -> Records] : n \in 0..MaxLogs} :
        \A i \in 1..(Len(l) - 1) : l[i].timestamp <= l[i + 1].timestamp}

InitEngine ==
  /\ clock \in ClockGrid
  /\ configuration \in EngineConfigs
  /\ accessLogs \in EngineLogs(clock)
  /\ tabUrlMap = [t \in Tabs |-> << >>]
  /\ h = [t \in Tabs |-> IdleHandler]
  /\ outcome = NoOutcome
  /\ call = NoCall

CallFilterAccessesInWindow(durationMinutes) ==
  /\ call.op = "none"
  /\ call' = [NoCall EXCEPT !.op = "filterAccessesInWindow", !.idx = durationMinutes,
                            !.kept = filterAccessesInWindow(accessLogs, durationMinutes, clock)]
  /\ UNCHANGED <<clock, configuration, accessLogs, tabUrlMap, h, outcome>>

\* calculateRemainingAccesses with the fields of rule group idx
CallCalculateRemainingAccesses(idx, site) ==
  /\ call.op = "none"
  /\ idx \in 1..Len(configuration.groups)
  /\ call' = [NoCall EXCEPT !.op = "calculateRemainingAccesses", !.idx = idx, !.site = site,
                            !.remaining = remainingOf(configuration.groups[idx], site,
                                                      accessLogs, clock)]
  /\ UNCHANGED <<clock, configuration, accessLogs, tabUrlMap, h, outcome>>

CallGetActiveRulesForSite(site) ==
  /\ call.op = "none"
  /\ call' = [NoCall EXCEPT !.op = "getActiveRulesForSite", !.site = site,
                            !.active = getActiveRulesForSite(site, configuration, clock)]
  /\ UNCHANGED <<clock, configuration, accessLogs, tabUrlMap, h, outcome>>

CallShouldBlockAccess(site) ==
  /\ call.op = "none"
  /\ call' = [NoCall EXCEPT !.op = "shouldBlockAccess", !.site = site,
                            !.decision = shouldBlockAccess(site, configuration, accessLogs, clock)]
  /\ UNCHANGED <<clock, configuration, accessLogs, tabUrlMap, h, outcome>>

CallGetMostRestrictiveCount(site) ==
  /\ call.op = "none"
  /\ call' = [NoCall EXCEPT !.op = "getMostRestrictiveCount", !.site = site,
                            !.count = getMostRestrictiveCount(site, configuration, accessLogs, clock)]
  /\ UNCHANGED <<clock, configuration, accessLogs, tabUrlMap, h, outcome>>

\* calculateUnblockTime for rule group idx
CallCalculateUnblockTime(idx, site) ==
  /\ call.op = "none"
  /\ idx \in 1..Len(configuration.groups)
  /\ call' = [NoCall EXCEPT !.op = "calculateUnblockTime", !.idx = idx, !.site = site,
                            !.kept = relevantLogsOf(site, configuration.groups[idx], accessLogs),
                            !.count = calculateUnblockTime(site, configuration.groups[idx],
                                                           accessLogs)]
  /\ UNCHANGED <<clock, configuration, accessLogs, tabUrlMap, h, outcome>>

NextEngine ==
  \/ \E d \in EngineDurations : CallFilterAccessesInWindow(d)
  \/ \E i \in 1..2, site \in EngineSites : CallCalculateRemainingAccesses(i, site)
  \/ \E site \in EngineSites : CallGetActiveRulesForSite(site)
  \/ \E site \in EngineSites : CallShouldBlockAccess(site)
  \/ \E site \in EngineSites : CallGetMostRestrictiveCount(site)
  \/ \E i \in 1..2, site \in EngineSites : CallCalculateUnblockTime(i, site)

SpecEngine == InitEngine /\ [][NextEngine]_vars

\* ------------------------------------------------------------------------
\* Waiting: shouldBlockAccess is called at some instant, then time passes and
\* nothing is recorded
\* ------------------------------------------------------------------------
NextWait ==
  \/ Tick
  \/ \E site \in EngineSites : CallShouldBlockAccess(site)

\* the clock keeps advancing
SpecWait == InitEngine /\ [][NextWait]_vars /\ WF_vars(Tick)

\* ------------------------------------------------------------------------
\* Direct calls of the schedule functions at instants of the week
\* ------------------------------------------------------------------------
MinutesPerDay == 24 * 60
\* every minute of a Sunday, a Monday and a Saturday, at its first and its
\* last millisecond
ScheduleDays == {0, 1, 6}
ScheduleInstants ==
  {BaseInstant + d * MsPerDay + m * MsPerMinute + ms :
     d \in ScheduleDays, m \in 0..(MinutesPerDay - 1), ms \in {0, MsPerMinute - 1}}

R_0900_1700 == << <<0, 9, 0, 0>>, <<1, 7, 0, 0>> >>
R_1215_1245 == << <<1, 2, 1, 5>>, <<1, 2, 4, 5>> >>
R_2300_0100 == << <<2, 3, 0, 0>>, <<0, 1, 0, 0>> >>
R_1700_0900 == << <<1, 7, 0, 0>>, <<0, 9, 0, 0>> >>
TimeRanges == {AllDay, OnlyMinuteOne, R_0900_1700, R_1215_1245, R_2300_0100, R_1700_0900}

\* schedule values: null, a property missing, and days with time ranges
MissingDays(times) ==
  [isNull |-> FALSE, hasDays |-> FALSE, days |-> {}, hasTimes |-> TRUE, times |-> times]
MissingTimes(days) ==
  [isNull |-> FALSE, hasDays |-> TRUE, days |-> days, hasTimes |-> FALSE, times |-> << >>]
ScheduleDaySets == {{}, {0}, {1, 6}, 0..6}
ScheduleTimes ==
  {<< >>, <<R_0900_1700>>, <<OnlyMinuteOne, R_1215_1245>>, <<R_2300_0100>>,
   <<R_2300_0100, R_1700_0900>>, <<R_1700_0900, R_0900_1700>>, <<AllDay>>}
Schedules ==
  {NoSchedule, MissingDays(<<R_1215_1245>>), MissingTimes({1, 6}),
   MissingDays(<< >>), MissingTimes({})}
  \cup {MkSchedule(days, times) : days \in ScheduleDaySets, times \in ScheduleTimes}

InitSchedule ==
  /\ clock \in ScheduleInstants
  /\ configuration = NullConfig
  /\ accessLogs = << >>
  /\ tabUrlMap = [t \in Tabs |-> << >>]
  /\ h = [t \in Tabs |-> IdleHandler]
  /\ outcome = NoOutcome
  /\ call = NoCall

\* isTimeInRange(new Date(), start, end) with the parsed bounds of a literal
CallIsTimeInRange(range) ==
  /\ call.op = "none"
  /\ call' = [NoCall EXCEPT !.op = "isTimeInRange", !.range = range,
                            !.flag = isTimeInRange(clock, parseTimeRange(range).start,
                                                   parseTimeRange(range).end)]
  /\ UNCHANGED <<clock, configuration, accessLogs, tabUrlMap, h, outcome>>

CallIsRuleActiveNow(schedule) ==
  /\ call.op = "none"
  /\ call' = [NoCall EXCEPT !.op = "isRuleActiveNow", !.schedule = schedule,
                            !.flag = isRuleActiveNow(schedule, clock)]
  /\ UNCHANGED <<clock, configuration, accessLogs, tabUrlMap, h, outcome>>

NextSchedule ==
  \/ \E range \in TimeRanges : CallIsTimeInRange(range)
  \/ \E schedule \in Schedules : CallIsRuleActiveNow(schedule)

SpecSchedule == InitSchedule /\ [][NextSchedule]_vars

\* ------------------------------------------------------------------------
\* Direct calls of the engine functions with a null or empty record collection
\* ------------------------------------------------------------------------
\* the accessLogs argument: null, or an array
NullLogs == [isNull |-> TRUE, items |-> << >>]
Logs(items) == [isNull |-> FALSE, items |-> items]
NullOrEmptyLogs == {NullLogs, Logs(<< >>)}

\* filterAccessesInWindow: accesses.filter(...) is a TypeError when accesses is null
filterAccessesInWindowThrows(accesses) == accesses.isNull

\* shouldBlockAccess: the decision, or threw when calculateRemainingAccesses throws
shouldBlockAccessOrThrow(site, config, logs, now) ==
  LET activeRules == getActiveRulesForSite(site, config, now)
  IN IF Len(activeRules) = 0 THEN [threw |-> FALSE, decision |-> NoBlock]
     ELSE IF filterAccessesInWindowThrows(logs) THEN [threw |-> TRUE, decision |-> NoBlock]
     ELSE [threw |-> FALSE, decision |-> blockLoop(activeRules, 1, site, logs.items, now)]

\* getMostRestrictiveCount: the count, or threw when calculateRemainingAccesses throws
getMostRestrictiveCountOrThrow(site, config, logs, now) ==
  LET activeRules == getActiveRulesForSite(site, config, now)
  IN IF Len(activeRules) = 0 THEN [threw |-> FALSE, count |-> Null]
     ELSE IF filterAccessesInWindowThrows(logs) THEN [threw |-> TRUE, count |-> Null]
     ELSE [threw |-> FALSE, count |-> getMostRestrictiveCount(site, config, logs.items, now)]

\* calculateUnblockTime: accessLogs.filter(...) is a TypeError when accessLogs is null
calculateUnblockTimeOrThrow(site, rule, logs) ==
  IF logs.isNull THEN [threw |-> TRUE, count |-> Null]
  ELSE [threw |-> FALSE, count |-> calculateUnblockTime(site, rule, logs.items)]

InitNullInputs ==
  /\ clock \in ClockGrid
  /\ configuration \in EngineConfigs
  /\ accessLogs = << >>
  /\ tabUrlMap = [t \in Tabs |-> << >>]
  /\ h = [t \in Tabs |-> IdleHandler]
  /\ outcome = NoOutcome
  /\ call = NoCall

CallGetActiveRulesForSiteBare(site) ==
  /\ call.op = "none"
  /\ call' = [NoCall EXCEPT !.op = "getActiveRulesForSite", !.site = site,
                            !.active = getActiveRulesForSite(site, configuration, clock)]
  /\ UNCHANGED <<clock, configuration, accessLogs, tabUrlMap, h, outcome>>

CallShouldBlockAccessOrThrow(site, logs) ==
  /\ call.op = "none"
  /\ LET r == shouldBlockAccessOrThrow(site, configuration, logs, clock)
     IN call' = [NoCall EXCEPT !.op = "shouldBlockAccess", !.site = site, !.logs = logs,
                               !.threw = r.threw, !.decision = r.decision]
  /\ UNCHANGED <<clock, configuration, accessLogs, tabUrlMap, h, outcome>>

CallGetMostRestrictiveCountOrThrow(site, logs) ==
  /\ call.op = "none"
  /\ LET r == getMostRestrictiveCountOrThrow(site, configuration, logs, clock)
     IN call' = [NoCall EXCEPT !.op = "getMostRestrictiveCount", !.site = site, !.logs = logs,
                               !.threw = r.threw, !.count = r.count]
  /\ UNCHANGED <<clock, configuration, accessLogs, tabUrlMap, h, outcome>>

CallCalculateUnblockTimeOrThrow(idx, site, logs) ==
  /\ call.op = "none"
  /\ idx \in 1..Len(configuration.groups)
  /\ LET r == calculateUnblockTimeOrThrow(site, configuration.groups[idx], logs)
     IN call' = [NoCall EXCEPT !.op = "calculateUnblockTime", !.idx = idx, !.site = site,
                               !.logs = logs, !.threw = r.threw, !.count = r.count]
  /\ UNCHANGED <<clock, configuration, accessLogs, tabUrlMap, h, outcome>>

NextNullInputs ==
  \/ \E site \in EngineSites : CallGetActiveRulesForSiteBare(site)
  \/ \E site \in EngineSites, logs \in NullOrEmptyLogs : CallShouldBlockAccessOrThrow(site, logs)
  \/ \E site \in EngineSites, l \in NullOrEmptyLogs : CallGetMostRestrictiveCountOrThrow(site, l)
  \/ \E i \in 1..2, site \in EngineSites, l \in NullOrEmptyLogs : CallCalculateUnblockTimeOrThrow(i, site, l)

SpecNullInputs == InitNullInputs /\ [][NextNullInputs]_vars

\* ------------------------------------------------------------------------
\* Evaluations that read the clock where the code reads it: isRuleActiveNow
\* does new Date() for each rule group, filterAccessesInWindow does
\* Date.now() for each active rule, and the clock may advance in between
\* ------------------------------------------------------------------------
RECURSIVE activeAt(_, _, _, _)
\* config.groups.filter(...) of getActiveRulesForSite from group i on, as
\* indices into groups; at[i] is the instant isRuleActiveNow reads for group i
activeAt(site, groups, i, at) ==
  IF i > Len(groups) THEN << >>
  ELSE LET keep == IF ~isRuleActiveNow(groups[i].schedule, at[i]) THEN FALSE
                   ELSE \E k \in 1..Len(groups[i].sites) :
                          matchesSitePattern(siteUrlOf(site), groups[i].sites[k])
       IN (IF keep THEN <<i>> ELSE << >>) \o activeAt(site, groups, i + 1, at)

getActiveRulesForSiteAt(site, config, at) ==
  IF config.isNull \/ ~config.hasGroups THEN << >>
  ELSE LET idx == activeAt(site, config.groups, 1, at)
       IN [j \in 1..Len(idx) |-> config.groups[idx[j]]]

RECURSIVE blockLoopAt(_, _, _, _, _)
\* the for loop of shouldBlockAccess; at[i] is the instant that
\* filterAccessesInWindow reads for the i-th active rule
blockLoopAt(activeRules, i, site, logs, at) ==
  IF i > Len(activeRules) THEN NoBlock
  ELSE IF remainingOf(activeRules[i], site, logs, at[i]) <= 0
       THEN [block |-> TRUE, ruleName |-> activeRules[i].name,
             duration |-> activeRules[i].duration,
             maxAccesses |-> activeRules[i].maxAccesses]
       ELSE blockLoopAt(activeRules, i + 1, site, logs, at)

shouldBlockAccessAt(site, config, logs, scheduleAt, windowAt) ==
  LET activeRules == getActiveRulesForSiteAt(site, config, scheduleAt)
  IN IF Len(activeRules) = 0 THEN NoBlock
     ELSE blockLoopAt(activeRules, 1, site, logs, windowAt)

RECURSIVE lowestLoopAt(_, _, _, _, _, _)
lowestLoopAt(activeRules, i, lowestRemaining, site, logs, at) ==
  IF i > Len(activeRules) THEN lowestRemaining
  ELSE lowestLoopAt(activeRules, i + 1,
                    MathMin(lowestRemaining, remainingOf(activeRules[i], site, logs, at[i])),
                    site, logs, at)

getMostRestrictiveCountAt(site, config, logs, scheduleAt, windowAt) ==
  LET activeRules == getActiveRulesForSiteAt(site, config, scheduleAt)
      lowestRemaining == lowestLoopAt(activeRules, 1, Infinity, site, logs, windowAt)
  IN IF Len(activeRules) = 0 THEN Null
     ELSE IF lowestRemaining.inf THEN Null ELSE Num(lowestRemaining.value)

\* the clock readings of one evaluation: one per rule group for the schedule,
\* then one per rule for the window, none earlier than the one before
ClockReadings(n, from) ==
  {s \in [1..(2 * n) -> {c \in ClockGrid : c >= from}] :
     \A i \in 1..(2 * n - 1) : s[i] <= s[i + 1]}

CallShouldBlockAccessAt(site, s) ==
  /\ call.op = "none"
  /\ LET n == Len(configuration.groups)
         scheduleAt == SubSeq(s, 1, n)
         windowAt == SubSeq(s, n + 1, 2 * n)
     IN call' = [NoCall EXCEPT !.op = "shouldBlockAccess", !.site = site,
                               !.start = clock, !.samples = s,
                               !.decision = shouldBlockAccessAt(site, configuration,
                                              accessLogs, scheduleAt, windowAt)]
  /\ clock' = IF Len(s) = 0 THEN clock ELSE s[Len(s)]
  /\ UNCHANGED <<configuration, accessLogs, tabUrlMap, h, outcome>>

CallGetMostRestrictiveCountAt(site, s) ==
  /\ call.op = "none"
  /\ LET n == Len(configuration.groups)
         scheduleAt == SubSeq(s, 1, n)
         windowAt == SubSeq(s, n + 1, 2 * n)
     IN call' = [NoCall EXCEPT !.op = "getMostRestrictiveCount", !.site = site,
                               !.start = clock, !.samples = s,
                               !.count = getMostRestrictiveCountAt(site, configuration,
                                           accessLogs, scheduleAt, windowAt)]
  /\ clock' = IF Len(s) = 0 THEN clock ELSE s[Len(s)]
  /\ UNCHANGED <<configuration, accessLogs, tabUrlMap, h, outcome>>

Readings == ClockReadings(Len(configuration.groups), clock)

NextClockReadings ==
  \/ \E site \in EngineSites, s \in Readings : CallShouldBlockAccessAt(site, s)
  \/ \E site \in EngineSites, s \in Readings : CallGetMostRestrictiveCountAt(site, s)

SpecClockReadings == InitEngine /\ [][NextClockReadings]_vars

\* ------------------------------------------------------------------------
\* Direct calls of the storage manager, each awaited before the next
\* ------------------------------------------------------------------------
\* a rule group without a name
RuleNoName == [RuleA EXCEPT !.name = ""]

SaveInputs ==
  {NullConfig, NoGroupsConfig, MkConfig(<< >>), MkConfig(<<RuleA>>), MkConfig(<<RuleB, RuleA>>),
   MkConfig(<<RuleZ>>), MkConfig(<<RuleA, RuleNoName>>)}

LogSites == {<< >>, S_dc}
LogTimestamps(now) == {0, now}
TabIdTypes == {"number", "undefined"}

\* saveConfiguration(config): throws before the write when the validation
\* fails, else chrome.storage.local.set
saveConfiguration(config) ==
  /\ IF ~validateConfiguration(config)
     THEN /\ call' = [NoCall EXCEPT !.op = "saveConfiguration", !.arg = config, !.threw = TRUE]
          /\ UNCHANGED configuration
     ELSE /\ call' = [NoCall EXCEPT !.op = "saveConfiguration", !.arg = config]
          /\ configuration' = config
  /\ UNCHANGED <<clock, accessLogs, tabUrlMap, h, outcome>>

\* addAccessLog(site, timestamp, tabId): throws before the read when the
\* validation fails, else getAccessLogs, push, chrome.storage.local.set
addAccessLog(site, timestamp, tabId, tabIdType) ==
  LET log == [site |-> site, timestamp |-> timestamp, tabId |-> tabId,
              tabIdType |-> tabIdType]
  IN /\ IF ~validateAccessLog(log)
        THEN /\ call' = [NoCall EXCEPT !.op = "addAccessLog", !.arg = log, !.threw = TRUE]
             /\ UNCHANGED accessLogs
        ELSE /\ Len(accessLogs) < MaxLogs
             /\ call' = [NoCall EXCEPT !.op = "addAccessLog", !.arg = log]
             /\ accessLogs' = Append(accessLogs,
                                  [site |-> site, timestamp |-> timestamp, tabId |-> tabId])
     /\ UNCHANGED <<clock, configuration, tabUrlMap, h, outcome>>

NextStorage ==
  \/ Tick
  \/ \E config \in SaveInputs : saveConfiguration(config)
  \/ \E site \in LogSites, ts \in LogTimestamps(clock), t \in Tabs, type \in TabIdTypes : addAccessLog(site, ts, t, type)

SpecStorage == Init /\ [][NextStorage]_vars

\* ------------------------------------------------------------------------
\* Calls of the settings page's data layer, each awaited before the next.
\* call.defaults is the DEFAULT_CONFIGURATION object of the page's module
\* instance: getConfiguration returns that object itself, not a copy, when
\* the stored configuration is missing or invalid.
\* ------------------------------------------------------------------------
MaxGroups == 2

\* getConfiguration returns the DEFAULT_CONFIGURATION object
returnsDefaultObject(stored) == stored.isNull \/ ~validateConfiguration(stored)

\* what getConfiguration returns while the object holds defaults
loadConfiguration(stored, defaults) == IF returnsDefaultObject(stored) THEN defaults ELSE stored

\* validateConfiguration of settings-data.js
validateConfigurationOfPage(config) ==
  /\ ~config.isNull
  /\ config.hasGroups
  /\ \A i \in 1..Len(config.groups) : validateRuleGroup(config.groups[i])

\* the settings call op has changed the loaded configuration to config: the
\* DEFAULT_CONFIGURATION object is changed with it when it is the loaded
\* object, and saveConfiguration stores config when it is valid
changeAndSave(op, config) ==
  /\ call' = [NoCall EXCEPT !.op = op, !.arg = config,
                            !.flag = validateConfigurationOfPage(config),
                            !.defaults = IF returnsDefaultObject(configuration)
                                         THEN config ELSE call.defaults]
  /\ configuration' = IF validateConfigurationOfPage(config) /\ validateConfiguration(config)
                      THEN config ELSE configuration
  /\ UNCHANGED <<clock, accessLogs, tabUrlMap, h, outcome>>

\* the settings call op has returned without loading the configuration
returnsErrors(op) ==
  /\ call' = [NoCall EXCEPT !.op = op, !.threw = TRUE, !.defaults = call.defaults]
  /\ UNCHANGED <<clock, configuration, accessLogs, tabUrlMap, h, outcome>>

addRuleGroup(group) ==
  LET config == loadConfiguration(configuration, call.defaults)
  IN IF ~validateRuleGroup(group) THEN returnsErrors("addRuleGroup")
     ELSE /\ Len(config.groups) < MaxGroups
          /\ changeAndSave("addRuleGroup", MkConfig(Append(config.groups, group)))

\* index counts from 1 here
updateRuleGroup(index, group) ==
  LET config == loadConfiguration(configuration, call.defaults)
  IN IF ~validateRuleGroup(group) THEN returnsErrors("updateRuleGroup")
     ELSE IF index < 1 \/ index > Len(config.groups) THEN returnsErrors("updateRuleGroup")
     ELSE changeAndSave("updateRuleGroup", MkConfig([config.groups EXCEPT ![index] = group]))

deleteRuleGroup(index) ==
  LET config == loadConfiguration(configuration, call.defaults)
      spliced == [j \in 1..(Len(config.groups) - 1) |->
                    IF j < index THEN config.groups[j] ELSE config.groups[j + 1]]
  IN IF index < 1 \/ index > Len(config.groups) THEN returnsErrors("deleteRuleGroup")
     ELSE changeAndSave("deleteRuleGroup", MkConfig(spliced))

\* importConfiguration of the JSON text of config: JSON.parse makes a new object
importConfiguration(config) ==
  IF ~validateConfigurationOfPage(config) THEN returnsErrors("importConfiguration")
  ELSE /\ call' = [NoCall EXCEPT !.op = "importConfiguration", !.arg = config,
                                 !.flag = TRUE, !.defaults = call.defaults]
       /\ configuration' = IF validateConfiguration(config) THEN config ELSE configuration
       /\ UNCHANGED <<clock, accessLogs, tabUrlMap, h, outcome>>

\* chrome.storage.local.clear()
clearAllData ==
  /\ configuration' = NullConfig
  /\ accessLogs' = << >>
  /\ call' = [NoCall EXCEPT !.op = "clearAllData", !.defaults = call.defaults]
  /\ UNCHANGED <<clock, tabUrlMap, h, outcome>>

\* getConfiguration() called by the page; the result is in call.arg
CallGetConfiguration ==
  /\ call' = [NoCall EXCEPT !.op = "getConfiguration", !.defaults = call.defaults,
                            !.flag = returnsDefaultObject(configuration),
                            !.arg = loadConfiguration(configuration, call.defaults)]
  /\ UNCHANGED <<clock, configuration, accessLogs, tabUrlMap, h, outcome>>

SettingsGroups == {RuleA, RuleB, RuleZ}
ImportInputs == {NoGroupsConfig, MkConfig(<<RuleB>>), MkConfig(<<RuleZ>>)}

\* the storage of a new installation, a stored configuration, and one that
\* does not pass validation
InitSettings ==
  /\ clock = BaseInstant
  /\ configuration \in {NullConfig, MkConfig(<<RuleA>>), MkConfig(<<RuleZ>>)}
  /\ accessLogs = << >>
  /\ tabUrlMap = [t \in Tabs |-> << >>]
  /\ h = [t \in Tabs |-> IdleHandler]
  /\ outcome = NoOutcome
  /\ call = NoCall

NextSettings ==
  \/ \E group \in SettingsGroups : addRuleGroup(group)
  \/ \E index \in 0..MaxGroups, group \in SettingsGroups : updateRuleGroup(index, group)
  \/ \E index \in 0..MaxGroups : deleteRuleGroup(index)
  \/ \E config \in ImportInputs : importConfiguration(config)
  \/ clearAllData
  \/ CallGetConfiguration

SpecSettings == InitSettings /\ [][NextSettings]_vars

\* ------------------------------------------------------------------------
\* Settings page: the warning about sites in several rule groups
\* ------------------------------------------------------------------------
\* parseInt("HHMM", 10) of one end of a time range literal
parseIntOf(t) == 1000 * t[1] + 100 * t[2] + 10 * t[3] + t[4]

\* variant: ranges that share an end point overlap
timeRangesOverlapInclusive(range1, range2) ==
  /\ parseIntOf(range1[1]) <= parseIntOf(range2[2])
  /\ parseIntOf(range2[1]) <= parseIntOf(range1[2])

timeRangesOverlap(range1, range2) ==
  /\ parseIntOf(range1[1]) < parseIntOf(range2[2])
  /\ parseIntOf(range2[1]) < parseIntOf(range1[2])

schedulesOverlap(schedule1, schedule2) ==
  LET commonDays == {day \in schedule1.days : day \in schedule2.days}
  IN IF commonDays = {} THEN FALSE
     ELSE \E i \in 1..Len(schedule1.times) : \E j \in 1..Len(schedule2.times) :
            timeRangesOverlap(schedule1.times[i], schedule2.times[j])

checkScheduleOverlap(schedules) ==
  IF \E i \in 1..Len(schedules) : schedules[i].isNull THEN TRUE
  ELSE \E i \in 1..Len(schedules) : \E j \in (i + 1)..Len(schedules) :
         schedulesOverlap(schedules[i], schedules[j])

\* the entries pushed into siteMap, in order: <<index, site>> for every site
\* of every group, the index counted from 0
RECURSIVE siteEntries(_, _)
siteEntries(groups, i) ==
  IF i > Len(groups) THEN << >>
  ELSE [k \in 1..Len(groups[i].sites) |-> <<i - 1, groups[i].sites[k]>>]
         \o siteEntries(groups, i + 1)

\* siteMap.get(site): the indexes of the groups that list the site
siteMapGet(groups, site) ==
  LET entries == SelectSeq(siteEntries(groups, 1), LAMBDA e : e[2] = site)
  IN [k \in 1..Len(entries) |-> entries[k][1]]

\* the overlaps returned: one entry for every site listed more than once
detectOverlappingSites(config) ==
  LET all == siteEntries(config.groups, 1)
      sites == {all[k][2] : k \in 1..Len(all)}
  IN {[site |-> site, groups |-> siteMapGet(config.groups, site),
       overlapping |-> checkScheduleOverlap(
          [k \in 1..Len(siteMapGet(config.groups, site)) |->
             config.groups[siteMapGet(config.groups, site)[k] + 1].schedule])] :
        site \in {s \in sites : Len(siteMapGet(config.groups, s)) > 1}}

CallDetectOverlappingSites ==
  /\ call.op = "none"
  /\ call' = [NoCall EXCEPT !.op = "detectOverlappingSites",
                            !.samples = detectOverlappingSites(
                               loadConfiguration(configuration, call.defaults))]
  /\ UNCHANGED <<clock, configuration, accessLogs, tabUrlMap, h, outcome>>

R_1700_2200 == << <<1, 7, 0, 0>>, <<2, 2, 0, 0>> >>
OverlapSchedules ==
  {NoSchedule, MkSchedule({0}, <<R_0900_1700>>), MkSchedule({0, 1}, <<R_1700_2200>>),
   MkSchedule({1}, <<R_0900_1700, R_1215_1245>>), MkSchedule(0..6, <<OnlyMinuteOne>>)}
OverlapGroups ==
  {[RuleA EXCEPT !.sites = sites, !.schedule = schedule] :
     sites \in {<<S_dc>>, <<S_ec>>}, schedule \in OverlapSchedules}
OverlapConfigs ==
  {MkConfig(groups) : groups \in UNION {[1..n -> OverlapGroups] : n \in 2..(MaxGroups + 1)}}

InitOverlap ==
  /\ clock = BaseInstant
  /\ configuration \in OverlapConfigs
  /\ validateConfiguration(configuration)
  /\ accessLogs = << >>
  /\ tabUrlMap = [t \in Tabs |-> << >>]
  /\ h = [t \in Tabs |-> IdleHandler]
  /\ outcome = NoOutcome
  /\ call = NoCall

NextOverlap == CallDetectOverlappingSites

SpecOverlap == InitOverlap /\ [][NextOverlap]_vars

\* ------------------------------------------------------------------------
\* Settings page: editing rule groups with the debounced save
\* ------------------------------------------------------------------------
\* The state of the page is kept in call: currentConfig, and saveTimeout,
\* which holds the group index (from 1) of the pending timer or null.
\* debouncedUpdate(index, field, value) called by an input listener
debouncedUpdate(index, field, value) ==
  /\ call.op = "settings page"
  /\ index \in 1..Len(call.currentConfig.groups)
  /\ call' = [call EXCEPT !.currentConfig.groups[index][field] = value,
                          !.saveTimeout = Num(index)]
  /\ UNCHANGED <<clock, configuration, accessLogs, tabUrlMap, h, outcome>>

\* the name input passes every text on
inputName(index, value) == debouncedUpdate(index, "name", value)

\* the duration and max accesses inputs pass positive numbers on
inputDuration(index, value) == value > 0 /\ debouncedUpdate(index, "duration", value)

inputMaxAccesses(index, value) == value > 0 /\ debouncedUpdate(index, "maxAccesses", value)

\* the pending timer fires: saveGroup(index) calls updateRuleGroup with the
\* group of currentConfig, and loadAndRender after a failure
saveGroup ==
  /\ call.op = "settings page"
  /\ ~call.saveTimeout.isNull
  /\ LET index == call.saveTimeout.value
         group == call.currentConfig.groups[index]
         config == loadConfiguration(configuration, call.defaults)
         updated == MkConfig([config.groups EXCEPT ![index] = group])
         success == /\ validateRuleGroup(group)
                    /\ index <= Len(config.groups)
                    /\ validateConfigurationOfPage(updated)
                    /\ validateConfiguration(updated)
     IN /\ configuration' = IF success THEN updated ELSE configuration
        /\ call' = [call EXCEPT !.saveTimeout = Null,
                                !.currentConfig = IF success THEN @ ELSE config]
  /\ UNCHANGED <<clock, accessLogs, tabUrlMap, h, outcome>>

EditNames == {"", "N"}
EditNumbers == {0, 1, 2}

\* the page has loaded the stored configuration of two rule groups
InitAutoSave ==
  /\ clock = BaseInstant
  /\ configuration = MkConfig(<<RuleA, RuleB>>)
  /\ accessLogs = << >>
  /\ tabUrlMap = [t \in Tabs |-> << >>]
  /\ h = [t \in Tabs |-> IdleHandler]
  /\ outcome = NoOutcome
  /\ call = [NoCall EXCEPT !.op = "settings page", !.currentConfig = configuration]

NextAutoSave ==
  \/ \E index \in 1..MaxGroups, value \in EditNames : inputName(index, value)
  \/ \E index \in 1..MaxGroups, value \in EditNumbers : inputDuration(index, value)
  \/ \E index \in 1..MaxGroups, value \in EditNumbers : inputMaxAccesses(index, value)
  \/ saveGroup

SpecAutoSave == InitAutoSave /\ [][NextAutoSave]_vars

\* ------------------------------------------------------------------------
\* Installation: initializeStorage and the writers that run beside it
\* ------------------------------------------------------------------------
STORAGE_VERSION == 1

\* The keys of chrome.storage.local: the configuration key is missing when
\* configuration is null; call.storageVersion and call.hasAccessLogs hold the
\* version key and the presence of the access log key.
storageNow ==
  [storageVersion |-> call.storageVersion, configuration |-> configuration,
   hasAccessLogs |-> call.hasAccessLogs, accessLogs |-> accessLogs]

\* chrome.storage.local.get of the three keys
storageGet(storage) ==
  [storageVersion |-> storage.storageVersion,
   hasConfiguration |-> ~storage.configuration.isNull,
   hasAccessLogs |-> storage.hasAccessLogs]

\* variant: the default configuration is saved whatever was read
initializedStorageOverwriting(storage, result) ==
  [storageVersion |-> Num(STORAGE_VERSION), configuration |-> DEFAULT_CONFIGURATION,
   hasAccessLogs |-> TRUE,
   accessLogs |-> IF ~result.hasAccessLogs THEN << >> ELSE storage.accessLogs]

\* the storage after the writes of initializeStorage, result being what its
\* chrome.storage.local.get has read; a throwing saveConfiguration ends it
initializedStorage(storage, result) ==
  LET needsInit == \/ result.storageVersion.isNull
                   \/ result.storageVersion.value = 0
                   \/ result.storageVersion.value # STORAGE_VERSION
  IN IF ~result.hasConfiguration /\ ~validateConfiguration(DEFAULT_CONFIGURATION)
     THEN storage
     ELSE [storageVersion |-> IF needsInit THEN Num(STORAGE_VERSION)
                              ELSE storage.storageVersion,
           configuration |-> IF ~result.hasConfiguration THEN DEFAULT_CONFIGURATION
                             ELSE storage.configuration,
           hasAccessLogs |-> IF ~result.hasAccessLogs THEN TRUE
                             ELSE storage.hasAccessLogs,
           accessLogs |-> IF ~result.hasAccessLogs THEN << >> ELSE storage.accessLogs]

\* initializeStorage up to the end of its chrome.storage.local.get
initializeStorageGet ==
  /\ call.op # "chrome.storage.local.get"
  /\ call' = [call EXCEPT !.op = "chrome.storage.local.get",
                          !.result = storageGet(storageNow)]
  /\ UNCHANGED <<clock, configuration, accessLogs, tabUrlMap, h, outcome>>

\* the rest of initializeStorage: the writes for what was read as missing
initializeStorage ==
  /\ call.op = "chrome.storage.local.get"
  /\ LET storage == initializedStorage(storageNow, call.result)
     IN /\ configuration' = storage.configuration
        /\ accessLogs' = storage.accessLogs
        /\ call' = [call EXCEPT !.op = "initializeStorage",
                                !.storageVersion = storage.storageVersion,
                                !.hasAccessLogs = storage.hasAccessLogs]
  /\ UNCHANGED <<clock, tabUrlMap, h, outcome>>

\* the settings page saves a configuration meanwhile
pageSavesConfiguration(config) ==
  /\ validateConfiguration(config)
  /\ configuration' = config
  /\ UNCHANGED <<clock, accessLogs, tabUrlMap, h, outcome, call>>

\* the navigation listener appends an access log meanwhile
listenerAddsAccessLog(site) ==
  /\ Len(accessLogs) < MaxLogs
  /\ accessLogs' = Append(accessLogs, [site |-> site, timestamp |-> clock, tabId |-> 1])
  /\ call' = [call EXCEPT !.hasAccessLogs = TRUE]
  /\ UNCHANGED <<clock, configuration, tabUrlMap, h, outcome>>

StoredVersions == {Null, Num(STORAGE_VERSION), Num(STORAGE_VERSION + 1)}

\* any subset of the three keys is stored at the start
InitInstall ==
  /\ clock = BaseInstant
  /\ configuration \in {NullConfig, MkConfig(<<RuleA>>), MkConfig(<<RuleB, RuleA>>)}
  /\ accessLogs = << >>
  /\ tabUrlMap = [t \in Tabs |-> << >>]
  /\ h = [t \in Tabs |-> IdleHandler]
  /\ outcome = NoOutcome
  /\ \E version \in StoredVersions, hasAccessLogs \in BOOLEAN :
       call = [NoCall EXCEPT !.storageVersion = version, !.hasAccessLogs = hasAccessLogs]

NextInstall ==
  \/ initializeStorageGet
  \/ initializeStorage
  \/ \E config \in {MkConfig(<<RuleA>>), MkConfig(<<RuleB>>)} : pageSavesConfiguration(config)
  \/ \E site \in {S_dc, S_ec} : listenerAddsAccessLog(site)

SpecInstall == InitInstall /\ [][NextInstall]_vars

\* ------------------------------------------------------------------------
\* Direct calls of the site pattern matcher
\* ------------------------------------------------------------------------
Https(rest) == <<"https://">> \o rest
U_xdcp == Https(<<"x", "d", ".", "c", "/", "p">>)
U_dcpx == Https(<<"d", ".", "c", "/", "p", "x">>)
MatcherUrls ==
  {U_dc, U_dcp, U_ec, U_chrome, U_xdcp, U_dcpx,
   Https(<<"d", ".", "c", "/">>),
   Https(<<"d", ".", "c", "/", "p", "/">>),
   Https(<<"d", ".", "c", "/", "p", "/", "q">>),
   Https(<<"d", ".", "c", "/", "q", "/", "p">>),
   Https(<<"d", ".", "c", "/", "p", "?", "x">>),
   Https(<<"d", ".", "c", "/", "p", "#", "x">>),
   Https(<<"d", ".", "c", ":", "8", "/", "p">>),
   Https(<<"a", ".", "d", ".", "c", "/", "p", "/", "q">>),
   Https(<<"D", ".", "c", "/", "p">>),
   Https(<<"d", ".", "c", "x", "/", "p">>),
   Https(<< >>),
   <<"about:", "p">>,
   S_dc,
   << >>}
MatcherPatterns ==
  {S_dc, P_dcp, S_ec, << >>,
   <<"c">>,
   <<"d", ".", "c", "/">>,
   <<"d", ".", "c", "/", "p", "/", "q">>,
   <<"d", ".", "c", "/", "p", "/">>}

InitMatcher ==
  /\ clock = BaseInstant
  /\ configuration = NullConfig
  /\ accessLogs = << >>
  /\ tabUrlMap = [t \in Tabs |-> << >>]
  /\ h = [t \in Tabs |-> IdleHandler]
  /\ outcome = NoOutcome
  /\ call = NoCall

CallMatchesSitePattern(url, pattern) ==
  /\ call.op = "none"
  /\ call' = [NoCall EXCEPT !.op = "matchesSitePattern", !.url = url, !.pattern = pattern,
                            !.flag = matchesSitePattern(url, pattern)]
  /\ UNCHANGED <<clock, configuration, accessLogs, tabUrlMap, h, outcome>>

NextMatcher == \E url \in MatcherUrls, pattern \in MatcherPatterns : CallMatchesSitePattern(url, pattern)

SpecMatcher == InitMatcher /\ [][NextMatcher]_vars

\* ------------------------------------------------------------------------
\* Properties
\* ------------------------------------------------------------------------
\* number of stored records of a site inside the rolling window ending now
InWindowCount(site, durationMinutes) ==
  Cardinality({i \in 1..Len(accessLogs) :
     /\ accessLogs[i].site = site
     /\ accessLogs[i].timestamp >= clock - durationMinutes * 60000})

\* the k-th smallest element of a set of indices
Nth(I, k) == CHOOSE i \in I : Cardinality({j \in I : j < i}) = k - 1
\* out lists, in order, the elements of seq at the indices I
ListsExactly(out, seq, I) ==
  /\ Len(out) = Cardinality(I)
  /\ \A k \in 1..Len(out) : out[k] = seq[Nth(I, k)]

\* rule group i is schedule-active now and has a pattern the site matches
ActiveApplicable(i, site) ==
  /\ isRuleActiveNow(configuration.groups[i].schedule, clock)
  /\ \E k \in 1..Len(configuration.groups[i].sites) :
       matchesSitePattern(siteUrlOf(site), configuration.groups[i].sites[k])
ActiveApplicableSet(site) == {i \in 1..Len(configuration.groups) : ActiveApplicable(i, site)}
RemainingOfGroup(i, site) == remainingOf(configuration.groups[i], site, accessLogs, clock)

\* an always-active, non-strict rule group with an allowance, and one of its
\* patterns that is a bare domain
LimitedDomain(g, k) ==
  /\ g.schedule.isNull
  /\ ~g.strictMode
  /\ g.maxAccesses >= 1
  /\ IndexOf(g.sites[k], "/") = 0

\* C1: with navigations handled one at a time, the stored records of domain S
\* inside the rolling window of an always-active non-strict rule group for S
\* never number more than the group's maxAccesses.
C1_RateLimitSafety ==
  \A i \in 1..Len(configuration.groups) :
    \A k \in 1..Len(configuration.groups[i].sites) :
      LimitedDomain(configuration.groups[i], k) =>
        InWindowCount(configuration.groups[i].sites[k], configuration.groups[i].duration)
          <= configuration.groups[i].maxAccesses

\* the allowance of a group is used up and a further navigation was blocked
C1_Witness ==
  \E i \in 1..Len(configuration.groups) :
    \E k \in 1..Len(configuration.groups[i].sites) :
      /\ LimitedDomain(configuration.groups[i], k)
      /\ InWindowCount(configuration.groups[i].sites[k], configuration.groups[i].duration)
           = configuration.groups[i].maxAccesses
      /\ outcome.kind = "blocked"
      /\ outcome.site = configuration.groups[i].sites[k]

\* C2: shouldBlockAccess blocks exactly when some schedule-active rule group
\* applicable to the site has 0 accesses remaining for it.
C2_BlockIffExhausted ==
  call.op = "shouldBlockAccess" =>
    (call.decision.block <=>
       \E i \in ActiveApplicableSet(call.site) : RemainingOfGroup(i, call.site) = 0)

\* a block caused by the second of two applicable groups, the first not exhausted
C2_Witness ==
  /\ call.op = "shouldBlockAccess"
  /\ call.decision.block
  /\ ActiveApplicableSet(call.site) = {1, 2}
  /\ RemainingOfGroup(1, call.site) > 0

\* the navigations decided "allow" and not yet written, for a site
AllowedInFlight(site) == {t \in Tabs : h[t].pc \in {"addRead", "addWrite"} /\ h[t].site = site}

\* C3: also when the handlers of two tabs interleave, the records of S inside
\* the window plus the navigations to S already allowed but not yet recorded
\* never number more than maxAccesses: of two concurrent navigations with one
\* access remaining at most one is allowed.
C3_ConcurrentNavigationsSafe ==
  \A i \in 1..Len(configuration.groups) :
    \A k \in 1..Len(configuration.groups[i].sites) :
      LimitedDomain(configuration.groups[i], k) =>
        InWindowCount(configuration.groups[i].sites[k], configuration.groups[i].duration)
          + Cardinality(AllowedInFlight(configuration.groups[i].sites[k]))
          <= configuration.groups[i].maxAccesses

\* index of the first exhausted group among the active applicable ones, 0 if none
FirstExhausted(site) ==
  LET I == {i \in ActiveApplicableSet(site) : RemainingOfGroup(i, site) <= 0}
  IN IF I = {} THEN 0 ELSE CHOOSE i \in I : \A j \in I : i <= j

\* C4: a block reports the name, duration and maxAccesses of the first rule
\* group in configuration order that is active, applicable and exhausted.
C4_FirstExhaustedRuleReported ==
  (call.op = "shouldBlockAccess" /\ call.decision.block) =>
    /\ FirstExhausted(call.site) # 0
    /\ call.decision.ruleName = configuration.groups[FirstExhausted(call.site)].name
    /\ call.decision.duration = configuration.groups[FirstExhausted(call.site)].duration
    /\ call.decision.maxAccesses = configuration.groups[FirstExhausted(call.site)].maxAccesses

\* two groups are exhausted and the later one has the smaller maxAccesses
C4_Witness ==
  /\ call.op = "shouldBlockAccess"
  /\ call.decision.block
  /\ ActiveApplicableSet(call.site) = {1, 2}
  /\ RemainingOfGroup(1, call.site) = 0
  /\ RemainingOfGroup(2, call.site) = 0
  /\ configuration.groups[2].maxAccesses < configuration.groups[1].maxAccesses
  /\ call.decision.ruleName = configuration.groups[1].name

\* C5: getMostRestrictiveCount is null exactly when no rule group is active
\* and applicable; otherwise it is the least remaining count of those groups.
C5_MostRestrictiveIsMinimum ==
  call.op = "getMostRestrictiveCount" =>
    /\ call.count.isNull <=> ActiveApplicableSet(call.site) = {}
    /\ ~call.count.isNull =>
         /\ \A i \in ActiveApplicableSet(call.site) :
              call.count.value <= RemainingOfGroup(i, call.site)
         /\ \E i \in ActiveApplicableSet(call.site) :
              call.count.value = RemainingOfGroup(i, call.site)

\* the minimum is that of the first of two groups, the second has more left
C5_Witness ==
  /\ call.op = "getMostRestrictiveCount"
  /\ ActiveApplicableSet(call.site) = {1, 2}
  /\ ~call.count.isNull
  /\ call.count.value = RemainingOfGroup(1, call.site)
  /\ call.count.value < RemainingOfGroup(2, call.site)

\* the block decision the navigation handler takes for a URL
handlerDecision(url) ==
  shouldBlockAccess(extractDomain(url), getConfiguration(configuration), accessLogs, clock)

\* C6: once the shared pool of a schedule-active strict-mode group is used
\* up, navigation to every site of the group is blocked.
C6_StrictPoolBlocksEverySite ==
  \A i \in 1..Len(configuration.groups) :
    (/\ configuration.groups[i].strictMode
     /\ isRuleActiveNow(configuration.groups[i].schedule, clock)
     /\ \A site \in EngineSites : RemainingOfGroup(i, site) = 0)
    => \A k \in 1..Len(configuration.groups[i].sites), url \in NavUrls :
         matchesSitePattern(url, configuration.groups[i].sites[k])
           => handlerDecision(url).block

\* C7: for a non-strict rule group the remaining count for site S is
\* max(0, maxAccesses - records in the window whose site is exactly S), and
\* it is the same when every record of another site is removed from the log.
C7_NonStrictCountsExactSite ==
  (call.op = "calculateRemainingAccesses" /\ ~configuration.groups[call.idx].strictMode) =>
    /\ call.remaining =
         Max(0, configuration.groups[call.idx].maxAccesses
                  - InWindowCount(call.site, configuration.groups[call.idx].duration))
    /\ call.remaining =
         remainingOf(configuration.groups[call.idx], call.site,
                     SelectSeq(accessLogs, LAMBDA log : log.site = call.site), clock)

\* the window holds a record of a subdomain of S and none of S itself
C7_Witness ==
  /\ call.op = "calculateRemainingAccesses"
  /\ ~configuration.groups[call.idx].strictMode
  /\ call.site = S_dc
  /\ \E j \in 1..Len(accessLogs) :
       /\ accessLogs[j].site = S_adc
       /\ accessLogs[j].timestamp >= clock - configuration.groups[call.idx].duration * 60000
  /\ call.remaining = configuration.groups[call.idx].maxAccesses
  /\ call.remaining > 0

\* C8: calculateRemainingAccesses lies between 0 and maxAccesses.
C8_RemainingInRange ==
  (call.op = "calculateRemainingAccesses" /\ configuration.groups[call.idx].maxAccesses >= 0) =>
    /\ call.remaining >= 0
    /\ call.remaining <= configuration.groups[call.idx].maxAccesses

\* the window holds more counted records than maxAccesses, the result is 0
C8_Witness ==
  /\ call.op = "calculateRemainingAccesses"
  /\ ~configuration.groups[call.idx].strictMode
  /\ InWindowCount(call.site, configuration.groups[call.idx].duration)
       > configuration.groups[call.idx].maxAccesses
  /\ call.remaining = 0

\* C9: filterAccessesInWindow keeps, in order, exactly the records that are at
\* most durationMinutes old; a record a millisecond older is dropped.
C9_WindowBoundaryInclusive ==
  call.op = "filterAccessesInWindow" =>
    ListsExactly(call.kept, accessLogs,
                 {i \in 1..Len(accessLogs) : clock - accessLogs[i].timestamp <= call.idx * 60000})

\* one record is exactly durationMinutes old and kept
C9_Witness ==
  /\ call.op = "filterAccessesInWindow"
  /\ \E j \in 1..Len(accessLogs) : clock - accessLogs[j].timestamp = call.idx * 60000
  /\ Len(call.kept) = Len(accessLogs)
  /\ Len(call.kept) > 0

\* C10: getActiveRulesForSite lists, in configuration order and with
\* repetitions kept, exactly the schedule-active rule groups with a pattern
\* the site matches; a null configuration or one without groups gives << >>.
C10_ActiveRulesInOrder ==
  call.op = "getActiveRulesForSite" =>
    /\ ListsExactly(call.active, configuration.groups, ActiveApplicableSet(call.site))
    /\ (configuration.isNull \/ ~configuration.hasGroups) => call.active = << >>

\* the same rule group is stored twice and listed twice
C10_Witness ==
  /\ call.op = "getActiveRulesForSite"
  /\ Len(call.active) = 2
  /\ call.active[1] = call.active[2]

\* weekday and minute of the day of the current instant
WeekdayNow == ((clock \div MsPerDay) + 4) % 7
MinuteOfDayNow == (clock % MsPerDay) \div MsPerMinute
\* first and last minute of the day of a time range literal
StartMinute(range) ==
  (10 * range[1][1] + range[1][2]) * 60 + 10 * range[1][3] + range[1][4]
EndMinute(range) ==
  (10 * range[2][1] + range[2][2]) * 60 + 10 * range[2][3] + range[2][4]
HasDayAndTimeData(schedule) == ~schedule.isNull /\ schedule.hasDays /\ schedule.hasTimes

\* C11: isRuleActiveNow is true for a schedule that is null or lacks days or
\* times; otherwise it is true exactly when the weekday is in schedule.days
\* and the minute of the day lies in one of the time ranges, start and end
\* minute included.
C11_ScheduleActiveIff ==
  call.op = "isRuleActiveNow" =>
    IF ~HasDayAndTimeData(call.schedule) THEN call.flag
    ELSE call.flag <=>
           /\ WeekdayNow \in call.schedule.days
           /\ \E i \in 1..Len(call.schedule.times) :
                /\ StartMinute(call.schedule.times[i]) <= MinuteOfDayNow
                /\ MinuteOfDayNow <= EndMinute(call.schedule.times[i])

\* the schedule is active at the last millisecond of the end minute of a range
C11_Witness ==
  /\ call.op = "isRuleActiveNow"
  /\ HasDayAndTimeData(call.schedule)
  /\ call.flag
  /\ clock % MsPerMinute = MsPerMinute - 1
  /\ \A i \in 1..Len(call.schedule.times) :
       StartMinute(call.schedule.times[i]) <= MinuteOfDayNow
         => /\ MinuteOfDayNow = EndMinute(call.schedule.times[i])
            /\ StartMinute(call.schedule.times[i]) < EndMinute(call.schedule.times[i])

\* C12: a time range whose start is later than its end holds no minute of the
\* day, and a schedule made of such ranges only is never active.
C12_RangesNeverWrap ==
  /\ (call.op = "isTimeInRange" /\ StartMinute(call.range) > EndMinute(call.range))
       => ~call.flag
  /\ (/\ call.op = "isRuleActiveNow"
      /\ HasDayAndTimeData(call.schedule)
      /\ \A i \in 1..Len(call.schedule.times) :
           StartMinute(call.schedule.times[i]) > EndMinute(call.schedule.times[i]))
       => ~call.flag

\* 2300-0100 on a scheduled day at 23:30: the schedule is not active
C12_Witness ==
  /\ call.op = "isRuleActiveNow"
  /\ call.schedule = MkSchedule(0..6, <<R_2300_0100>>)
  /\ MinuteOfDayNow = 23 * 60 + 30
  /\ ~call.flag

\* the stored records that count for a rule group and a site when only the
\* site of the record is looked at: the site itself, or for a strict-mode
\* group the domain of any of the group's patterns (with its subdomains)
RelevantRecords(rule, site) ==
  {j \in 1..Len(accessLogs) :
     IF rule.strictMode
     THEN \E k \in 1..Len(rule.sites) : strictSiteMatch(accessLogs[j].site, rule.sites[k])
     ELSE accessLogs[j].site = site}

\* C13: calculateUnblockTime is null when no stored record is relevant to the
\* rule group and the site; otherwise it is the smallest timestamp of the
\* relevant records, whatever their age, plus the group's duration.
C13_UnblockTimeFromOldestRelevant ==
  call.op = "calculateUnblockTime" =>
    LET rule == configuration.groups[call.idx]
        R == RelevantRecords(rule, call.site)
    IN IF R = {} THEN call.count.isNull
       ELSE /\ ~call.count.isNull
            /\ \E j \in R : call.count.value = accessLogs[j].timestamp + rule.duration * 60000
            /\ \A j \in R : call.count.value <= accessLogs[j].timestamp + rule.duration * 60000

\* C13 for the rule groups whose patterns are all bare domains
C13_UnblockTimeDomainPatterns ==
  (/\ call.op = "calculateUnblockTime"
   /\ \A k \in 1..Len(configuration.groups[call.idx].sites) :
        IndexOf(configuration.groups[call.idx].sites[k], "/") = 0)
  => C13_UnblockTimeFromOldestRelevant

\* the record the handler of tab t has decided to store
pendingRecord(t) == [site |-> h[t].site, timestamp |-> h[t].timestamp, tabId |-> t]

\* the handler of tab t completes the recording of an allowed navigation
RecordingDone(t) == h[t].pc = "addWrite" /\ h'[t].pc = "badge"

NavigationAppendsOne ==
  /\ \A t \in Tabs :
       RecordingDone(t) => accessLogs' = Append(accessLogs, pendingRecord(t))
  /\ \A t \in Tabs :
       (h[t].pc \notin {"addWrite", "pruneWrite"} /\ h'[t] # h[t])
         => accessLogs' = accessLogs

\* C14: a main-frame navigation that is not ignored, not a refresh and not
\* blocked adds exactly its one record {site, timestamp, tabId} to the stored
\* log, rule or no rule; a sub-frame, ignored, refresh or blocked navigation
\* leaves the stored log as it is.
C14_OneRecordPerAllowedNavigation == [][NavigationAppendsOne]_vars

\* a site no rule group applies to has been recorded
UntrackedSiteRecorded ==
  /\ outcome.kind = "allowed"
  /\ \A i \in 1..Len(configuration.groups) : ~ActiveApplicable(i, outcome.site)
  /\ \E j \in 1..Len(accessLogs) : accessLogs[j].site = outcome.site

\* the handler of tab t takes up a main-frame navigation to a site
NavigationTakenUp(t) == h[t].pc = "idle" /\ h'[t].pc # "idle"

RefreshDoesNotCount ==
  /\ \A t \in Tabs :
       NavigationTakenUp(t) =>
         (h'[t].pc = "refreshBadge" <=>
            \/ /\ Len(tabUrlMap[t]) # 0
               /\ extractDomain(tabUrlMap[t]) = extractDomain(h'[t].url)
            \/ h'[t].transitionType = "reload")
  /\ \A t \in Tabs :
       (h'[t].pc = "refreshBadge" \/ h[t].pc = "refreshBadge") /\ h'[t] # h[t]
         => /\ accessLogs' = accessLogs
            /\ h'[t].pc \in {"refreshBadge", "idle"}
            /\ h'[t].pc = "idle" => outcome'.kind = "refresh"
  /\ \A t \in Tabs :
       (NavigationTakenUp(t) /\ h'[t].pc # "refreshBadge") => h'[t].pc = "getConfiguration"

OnlyLimitedAlwaysActive(site) ==
  \A i \in 1..Len(configuration.groups) :
    (\E k \in 1..Len(configuration.groups[i].sites) :
       matchesSitePattern(siteUrlOf(site), configuration.groups[i].sites[k]))
    => /\ configuration.groups[i].schedule.isNull
       /\ configuration.groups[i].maxAccesses >= 1

\* the last instant of the clock
LastInstant == CHOOSE c \in ClockGrid : \A d \in ClockGrid : d <= c
\* the clock can run until every stored record is older than every window
WindowCanRoll ==
  \A j \in 1..Len(accessLogs) :
    accessLogs[j].timestamp + maxDurationOf(configuration) * 60000 < LastInstant

BlockedNow(site) == shouldBlockAccess(site, configuration, accessLogs, clock).block

\* C16: when shouldBlockAccess has blocked site S under always-active rule
\* groups that all allow at least one access, and nothing more is recorded
\* while the clock advances, shouldBlockAccess for S eventually answers
\* block = false.
C16_BlockingIsTemporary ==
  (/\ call.op = "shouldBlockAccess"
   /\ call.decision.block
   /\ OnlyLimitedAlwaysActive(call.site)
   /\ WindowCanRoll)
  ~> ~BlockedNow(call.site)

\* a site that was blocked under such rule groups is not blocked any more
C16_Witness ==
  /\ call.op = "shouldBlockAccess"
  /\ call.decision.block
  /\ OnlyLimitedAlwaysActive(call.site)
  /\ WindowCanRoll
  /\ ~BlockedNow(call.site)

\* host and path (leading slash removed) of a URL that parses
HostOf(url) == extractDomain(url)
PathNoSlash(url) ==
  IF StartsWith(extractPath(url), <<"/">>) THEN Tail(extractPath(url)) ELSE extractPath(url)

\* C17: matchesSitePattern is true exactly when the host is the pattern's
\* domain or ends with "." and that domain and, if the pattern has a path,
\* the URL's path without its leading slash is that path or starts with it
\* and "/"; it is false for a URL that does not parse and for an empty
\* URL or pattern.  A look-alike domain and a longer first path segment do
\* not match.
C17_PatternMatchIff ==
  call.op = "matchesSitePattern" =>
    /\ call.flag <=>
         /\ ~InvalidUrl(call.url)
         /\ Len(call.pattern) # 0
         /\ \/ HostOf(call.url) = patternDomainOf(call.pattern)
            \/ EndsWith(HostOf(call.url), <<".">> \o patternDomainOf(call.pattern))
         /\ \/ Len(patternPathOf(call.pattern)) = 0
            \/ PathNoSlash(call.url) = patternPathOf(call.pattern)
            \/ StartsWith(PathNoSlash(call.url), patternPathOf(call.pattern) \o <<"/">>)
    /\ (call.url = U_xdcp /\ call.pattern \in {S_dc, P_dcp}) => ~call.flag
    /\ (call.url = U_dcpx /\ call.pattern = P_dcp) => ~call.flag
    /\ (call.url = S_dc \/ call.url = << >> \/ call.pattern = << >>) => ~call.flag

\* the look-alike host xd.c is matched against the pattern d.c
C17_Witness ==
  /\ call.op = "matchesSitePattern"
  /\ call.url = U_xdcp
  /\ call.pattern = S_dc
  /\ ~call.flag

\* some schedule-active rule group applicable to the site allows no access
ZeroAllowanceApplies(site) ==
  \E i \in ActiveApplicableSet(site) : configuration.groups[i].maxAccesses = 0

\* C18: when a schedule-active rule group applicable to the site has
\* maxAccesses 0, shouldBlockAccess blocks whatever the access log holds, the
\* empty log included, and getMostRestrictiveCount is 0.
C18_ZeroMeansAlwaysBlocked ==
  ZeroAllowanceApplies(call.site) =>
    /\ call.op = "shouldBlockAccess" => call.decision.block
    /\ call.op = "getMostRestrictiveCount" => (~call.count.isNull /\ call.count.value = 0)

\* with an empty log the site is blocked by the group that allows no access
C18_Witness ==
  /\ call.op = "shouldBlockAccess"
  /\ ZeroAllowanceApplies(call.site)
  /\ accessLogs = << >>
  /\ call.decision.block
  /\ call.decision.maxAccesses = 0

\* record j was made while rule group i was schedule-active, or while another
\* schedule-active rule group covered the domain of the record
MadeUnderActiveRule(i, j) ==
  \/ isRuleActiveNow(configuration.groups[i].schedule, accessLogs[j].timestamp)
  \/ \E i2 \in 1..Len(configuration.groups) :
       /\ i2 # i
       /\ isRuleActiveNow(configuration.groups[i2].schedule, accessLogs[j].timestamp)
       /\ \E k \in 1..Len(configuration.groups[i2].sites) :
            strictSiteMatch(accessLogs[j].site, configuration.groups[i2].sites[k])

\* the records inside the window of rule group i that count toward its
\* allowance for the site when schedule boundaries are hard
HardWindowRecords(i, site) ==
  {j \in RelevantRecords(configuration.groups[i], site) :
     /\ accessLogs[j].timestamp >= clock - configuration.groups[i].duration * 60000
     /\ MadeUnderActiveRule(i, j)}

\* C19: the allowance of a schedule-active rule group is reduced only by
\* records made while the group was schedule-active or while another active
\* group covered the site; a record made just before the schedule began does
\* not count.
C19_ScheduleBoundariesHard ==
  (call.op = "calculateRemainingAccesses" /\ call.idx \in ActiveApplicableSet(call.site)) =>
    call.remaining =
      Max(0, configuration.groups[call.idx].maxAccesses
               - Cardinality(HardWindowRecords(call.idx, call.site)))

\* rule group g has a pattern with a path that the URL matches
PathPatternMatches(g, url) ==
  \E k \in 1..Len(g.sites) :
    /\ Len(patternPathOf(g.sites[k])) # 0
    /\ matchesSitePattern(url, g.sites[k])
\* rule group g has patterns with a path only, and the URL matches none
OnOtherPath(g, url) ==
  \A k \in 1..Len(g.sites) :
    /\ Len(patternPathOf(g.sites[k])) # 0
    /\ ~matchesSitePattern(url, g.sites[k])

\* the rule groups the handler of tab t evaluated for its navigation
rulesApplied(t) == getActiveRulesForSite(h[t].site, h[t].config, h[t].timestamp)
IsApplied(g, t) == \E n \in 1..Len(rulesApplied(t)) : rulesApplied(t)[n] = g

\* C20: when the handler has allowed a navigation, every schedule-active rule
\* group with a path pattern that the URL matches (same domain, that path or
\* deeper) was among the rule groups it evaluated, and a rule group whose
\* path patterns the URL does not match was not.
C20_PathPatternsEnforced ==
  \A t \in Tabs :
    h[t].pc = "addRead" =>
      \A i \in 1..Len(h[t].config.groups) :
        LET g == h[t].config.groups[i]
        IN /\ (isRuleActiveNow(g.schedule, h[t].timestamp) /\ PathPatternMatches(g, h[t].url))
                => IsApplied(g, t)
           /\ OnOtherPath(g, h[t].url) => ~IsApplied(g, t)

\* the configuration argument is null, without groups or with an empty list
NullOrEmptyConfig ==
  configuration.isNull \/ ~configuration.hasGroups \/ Len(configuration.groups) = 0

\* C21: with a null or empty configuration or record collection none of the
\* four engine functions throws: getActiveRulesForSite gives the empty list
\* for a null or empty configuration, shouldBlockAccess gives block = false
\* unless a rule group allows no access at all, getMostRestrictiveCount
\* gives null or the full allowance, and calculateUnblockTime gives null,
\* also when the record collection is null while a rule group applies.
C21_NullInputsNeverThrow ==
  /\ ~call.threw
  /\ (call.op = "getActiveRulesForSite" /\ NullOrEmptyConfig) => call.active = << >>
  /\ (call.op = "shouldBlockAccess" /\ ~ZeroAllowanceApplies(call.site))
       => ~call.decision.block
  /\ (call.op = "getMostRestrictiveCount" /\ ~call.count.isNull)
       => \E i \in ActiveApplicableSet(call.site) :
            call.count.value = configuration.groups[i].maxAccesses
  /\ call.op = "calculateUnblockTime" => call.count.isNull

\* C21 for record collections that are arrays
C21_EmptyInputsNeverThrow == ~call.logs.isNull => C21_NullInputsNeverThrow

\* the last call was a write whose argument fails validation
InvalidWrite(c) ==
  \/ c.op = "saveConfiguration" /\ ~validateConfiguration(c.arg)
  \/ /\ c.op = "addAccessLog"
     /\ (c.arg.site = << >> \/ c.arg.timestamp <= 0 \/ c.arg.tabIdType # "number")

FailedWriteLeavesStorage ==
  InvalidWrite(call') =>
    /\ call'.threw
    /\ configuration' = configuration
    /\ accessLogs' = accessLogs

\* C22: saveConfiguration with a configuration that fails validation and
\* addAccessLog with a record that fails validation (empty site, timestamp
\* <= 0, non-numeric tabId) raise an error and leave the stored
\* configuration and the stored access log as they were before the call.
C22_FailedWritesLeaveStorage == [][FailedWriteLeavesStorage]_vars

\* both kinds of failed write happen on a storage that holds records
C22_Witness ==
  /\ InvalidWrite(call)
  /\ call.threw
  /\ call.op = "addAccessLog"
  /\ call.arg.site # << >>
  /\ call.arg.timestamp > 0
  /\ Len(accessLogs) > 0
  /\ configuration \notin StoredConfigs

\* a pruneOldAccessLogs call completes with its write
PruneCompletes == \E t \in Tabs : h[t].pc = "pruneWrite" /\ h'[t].pc = "idle"

PruneKeepsDecisions ==
  PruneCompletes =>
    \A site \in EngineSites :
      /\ shouldBlockAccess(site, getConfiguration(configuration), accessLogs', clock)
           = shouldBlockAccess(site, getConfiguration(configuration), accessLogs, clock)
      /\ getMostRestrictiveCount(site, getConfiguration(configuration), accessLogs', clock)
           = getMostRestrictiveCount(site, getConfiguration(configuration), accessLogs, clock)

\* C23: the prune of the navigation handler never changes a decision:
\* for every site shouldBlockAccess and getMostRestrictiveCount give the
\* same result on the stored log right before and right after a prune.
C23_PruneKeepsDecisions == [][PruneKeepsDecisions]_vars

\* the instants between the start and the end of the last evaluation; the
\* schedule state and the windows change at whole minutes only, so the
\* instant 1 ms after a whole minute stands for the rest of that minute
EvaluationInstants ==
  {now \in ClockGrid \cup {c + 1 : c \in ClockGrid} : call.start <= now /\ now <= clock}

\* C24: one evaluation uses one value of "now" for every schedule check and
\* every window: whatever the clock does during the evaluation, the result
\* of shouldBlockAccess and of getMostRestrictiveCount is the result at one
\* instant of the evaluation.
C24_OneInstantPerEvaluation ==
  /\ call.op = "shouldBlockAccess" =>
       \E now \in EvaluationInstants :
         call.decision = shouldBlockAccess(call.site, configuration, accessLogs, now)
  /\ call.op = "getMostRestrictiveCount" =>
       \E now \in EvaluationInstants :
         call.count = getMostRestrictiveCount(call.site, configuration, accessLogs, now)

\* C24 for the evaluations during which the clock stands still
C24_SteadyClock == call.start = clock => C24_OneInstantPerEvaluation

\* C25: for the same site, configuration, access log and instant,
\* shouldBlockAccess blocks if and only if getMostRestrictiveCount is 0, and
\* does not block when the count is null or positive.
C25_BlockIffCountZero ==
  /\ call.op = "shouldBlockAccess" =>
       LET count == getMostRestrictiveCount(call.site, configuration, accessLogs, clock)
       IN /\ call.decision.block <=> (~count.isNull /\ count.value = 0)
          /\ (count.isNull \/ count.value > 0) => ~call.decision.block
  /\ call.op = "getMostRestrictiveCount" =>
       LET blockDecision == shouldBlockAccess(call.site, configuration, accessLogs, clock)
       IN /\ blockDecision.block <=> (~call.count.isNull /\ call.count.value = 0)
          /\ (call.count.isNull \/ call.count.value > 0) => ~blockDecision.block

\* the count is 0 through the second of two active rule groups, whose first
\* has accesses left
C25_Witness ==
  /\ call.op = "getMostRestrictiveCount"
  /\ ~call.count.isNull
  /\ call.count.value = 0
  /\ \E i, j \in ActiveApplicableSet(call.site) :
       i < j /\ RemainingOfGroup(i, call.site) > 0 /\ RemainingOfGroup(j, call.site) = 0

\* record r is in the log
InLog(r, log) == \E k \in 1..Len(log) : log[k] = r

AppendKeepsStoredRecords ==
  \A t \in Tabs :
    RecordingDone(t) =>
      /\ InLog(pendingRecord(t), accessLogs')
      /\ \A j \in 1..Len(accessLogs) : InLog(accessLogs[j], accessLogs')

\* C26: addAccessLog is an atomic append: when an addAccessLog call
\* completes, the stored log holds its record and every record stored right
\* before, the record of an overlapping call that completed first included.
C26_AtomicAppend == [][AppendKeepsStoredRecords]_vars

\* the cutoff of pruneOldAccessLogs(maxDuration * 2) of tab t's handler, had
\* it been computed now; the cutoff the prune computed is not later
cutoffTimeNow(t) == clock - (maxDurationOf(h[t].config) * 2 * 60 * 1000)

PruneKeepsRecent ==
  \A t \in Tabs :
    (h[t].pc = "pruneWrite" /\ h'[t].pc = "idle") =>
      \A j \in 1..Len(accessLogs) :
        accessLogs[j].timestamp >= cutoffTimeNow(t) => InLog(accessLogs[j], accessLogs')

\* C27: when a pruneOldAccessLogs call completes, every stored record whose
\* timestamp is at or after the cutoff is still in the stored log, a record
\* appended by another handler during the prune included.
C27_PruneRemovesOnlyOld == [][PruneKeepsRecent]_vars

\* the handler of tab t blocks its navigation in this step
BlocksNow(t) == h[t].pc = "getAccessLogs" /\ h'[t].pc = "idle" /\ outcome'.kind = "blocked"

\* the expiry of the oldest record of rule's window that rule counts for site
oldestExpiryInWindow(site, rule, logs, now) ==
  LET counted == {j \in 1..Len(logs) :
                    /\ logs[j].timestamp >= now - (rule.duration * 60 * 1000)
                    /\ IF rule.strictMode
                       THEN \E k \in 1..Len(rule.sites) : strictSiteMatch(logs[j].site, rule.sites[k])
                       ELSE logs[j].site = site}
  IN IF counted = {} THEN Null
     ELSE Num((CHOOSE ts \in {logs[j].timestamp : j \in counted} :
                 \A j \in counted : ts <= logs[j].timestamp) + (rule.duration * 60 * 1000))

UnblockTimeLater ==
  \A t \in Tabs :
    BlocksNow(t) =>
      /\ ~outcome'.unblockTime.isNull
      /\ outcome'.unblockTime.value > clock

UnblockTimeNotEarlier ==
  \A t \in Tabs :
    BlocksNow(t) =>
      /\ ~outcome'.unblockTime.isNull
      /\ outcome'.unblockTime.value >= clock

UnblockTimeIsOldestExpiry ==
  \A t \in Tabs :
    BlocksNow(t) =>
      outcome'.unblockTime =
        oldestExpiryInWindow(h[t].site,
                             h[t].config.groups[findByName(h[t].config, outcome'.ruleName)],
                             accessLogs, clock)

\* C28: when the navigation handler blocks a site because of a rule group,
\* the unblock time it passes to the blocked page is strictly later than
\* the instant of the decision.
C28_UnblockTimeLater == [][UnblockTimeLater]_vars

\* C28 with "not earlier" for "strictly later"
C28_UnblockTimeNotEarlier == [][UnblockTimeNotEarlier]_vars

\* C28: the unblock time is the expiry of the oldest access inside the window
C28_UnblockTimeIsOldestExpiry == [][UnblockTimeIsOldestExpiry]_vars

\* rule group i blocks site with exactly maxAccesses relevant records, all
\* inside its window
BlocksWithFullWindow(i, site) ==
  LET rule == configuration.groups[i]
      R == RelevantRecords(rule, site)
  IN /\ rule.maxAccesses >= 1
     /\ ActiveApplicable(i, site)
     /\ RemainingOfGroup(i, site) = 0
     /\ Cardinality(R) = rule.maxAccesses
     /\ \A j \in R : accessLogs[j].timestamp >= clock - rule.duration * 60000

\* C29: when a rule group of maxAccesses >= 1 blocks a site with exactly
\* maxAccesses relevant records, all inside its window, then at the instant
\* calculateUnblockTime returns, with the log unchanged, the group's
\* remaining count for the site is at least 1.
C29_UnblockTimeUnblocks ==
  (call.op = "calculateUnblockTime" /\ BlocksWithFullWindow(call.idx, call.site)) =>
    /\ ~call.count.isNull
    /\ remainingOf(configuration.groups[call.idx], call.site, accessLogs, call.count.value) >= 1

\* C29 one millisecond after the instant calculateUnblockTime returns
C29_UnblocksOneMsLater ==
  (call.op = "calculateUnblockTime" /\ BlocksWithFullWindow(call.idx, call.site)
     /\ ~call.count.isNull) =>
    remainingOf(configuration.groups[call.idx], call.site, accessLogs, call.count.value + 1) >= 1

\* C30: for a strict-mode rule group calculateUnblockTime takes as relevant
\* exactly the records whose site is the domain of one of the group's
\* patterns, or a subdomain of it, as calculateRemainingAccesses does when
\* the window is left aside; a path in a pattern plays no part.
C30_StrictRelevanceAgrees ==
  (call.op = "calculateUnblockTime" /\ configuration.groups[call.idx].strictMode) =>
    LET rule == configuration.groups[call.idx]
    IN call.kept =
         SelectSeq(accessLogs,
           LAMBDA log : \E k \in 1..Len(rule.sites) : strictSiteMatch(log.site, rule.sites[k]))

\* C30 for the strict-mode rule groups whose patterns are all bare domains
C30_StrictRelevanceDomainPatterns ==
  (/\ call.op = "calculateUnblockTime"
   /\ \A k \in 1..Len(configuration.groups[call.idx].sites) :
        IndexOf(configuration.groups[call.idx].sites[k], "/") = 0)
  => C30_StrictRelevanceAgrees

\* the handler of tab t takes up a navigation while the map has no entry for
\* the tab
TakenUpWithoutEntry(t) == NavigationTakenUp(t) /\ Len(tabUrlMap[t]) = 0

NoRefreshWithoutEntry ==
  \A t \in Tabs : TakenUpWithoutEntry(t) => h'[t].pc = "getConfiguration"

OnlyReloadIsRefreshWithoutEntry ==
  \A t \in Tabs :
    TakenUpWithoutEntry(t) =>
      /\ h'[t].pc = "refreshBadge" <=> h'[t].transitionType = "reload"
      /\ h'[t].pc # "refreshBadge" => h'[t].pc = "getConfiguration"

blockingGroup(site, config, logs, now) ==
  LET I == {i \in 1..Len(config.groups) :
              /\ isRuleActiveNow(config.groups[i].schedule, now)
              /\ \E k \in 1..Len(config.groups[i].sites) :
                   matchesSitePattern(siteUrlOf(site), config.groups[i].sites[k])
              /\ remainingOf(config.groups[i], site, logs, now) <= 0}
  IN CHOOSE i \in I : \A j \in I : i <= j

UnblockTimeOfBlockingGroup ==
  \A t \in Tabs :
    BlocksNow(t) =>
      LET i == blockingGroup(h[t].site, h[t].config, accessLogs, clock)
      IN /\ outcome'.ruleName = h[t].config.groups[i].name
         /\ outcome'.unblockTime =
              calculateUnblockTime(h[t].site, h[t].config.groups[i], accessLogs)

\* C32: when a navigation is blocked, the unblock time on the blocked page
\* is computed with the rule group that produced the block decision, also
\* when several rule groups have the same name.
C32_UnblockTimeOfBlockingGroup == [][UnblockTimeOfBlockingGroup]_vars

\* number of stored records inside the rolling window ending now whose site
\* is the domain of pattern or one of its subdomains
InWindowCountOfPattern(pattern, durationMinutes) ==
  Cardinality({i \in 1..Len(accessLogs) :
     /\ strictSiteMatch(accessLogs[i].site, pattern)
     /\ accessLogs[i].timestamp >= clock - durationMinutes * 60000})

\* the sites of the stored records
RecordedSites == {accessLogs[i].site : i \in 1..Len(accessLogs)}

C34_DefaultNeverModified ==
  (call.op = "getConfiguration" /\ call.flag) => call.arg = DEFAULT_CONFIGURATION

\* C34 for the sequences in which no rule group is added, updated or deleted
\* while the stored configuration is missing or invalid
C34_DefaultObjectUntouched == call.defaults = DEFAULT_CONFIGURATION

\* the weekdays and minutes of a week at which the schedule is active
\* according to isRuleActiveNow
WeekMinutes == {BaseInstant + d * MsPerDay + m * MsPerMinute : d \in 0..6, m \in 0..(MinutesPerDay - 1)}
ActiveMinutesOf == [schedule \in OverlapSchedules |-> {t \in WeekMinutes : isRuleActiveNow(schedule, t)}]
\* two of the listed groups are schedule-active at the same weekday and minute
BothActiveSometime(groups, indexes) ==
  \E i \in 1..Len(indexes) : \E j \in (i + 1)..Len(indexes) :
    ActiveMinutesOf[groups[indexes[i] + 1].schedule]
      \cap ActiveMinutesOf[groups[indexes[j] + 1].schedule] # {}

\* C35: detectOverlappingSites marks the groups of a site listed by several
\* rule groups as overlapping if and only if at some weekday and minute at
\* least two of those groups are both schedule-active by isRuleActiveNow.
C35_OverlapIffBothActive ==
  call.op = "detectOverlappingSites"
    => \A entry \in call.samples :
         entry.overlapping <=> BothActiveSometime(configuration.groups, entry.groups)

\* C36: once no debounce timer is pending and the saves are complete, the
\* stored configuration equals the page's currentConfig for the valid edits
\* made, whatever the order of the edits across rule groups.
C36_AutoSavePersistsEdits ==
  (/\ call.op = "settings page"
   /\ call.saveTimeout.isNull
   /\ validateConfiguration(call.currentConfig))
    => configuration = call.currentConfig

\* the storage after the step
storageNext ==
  [storageVersion |-> call'.storageVersion, configuration |-> configuration',
   hasAccessLogs |-> call'.hasAccessLogs, accessLogs |-> accessLogs']

CompleteBlock(group) ==
  /\ group.maxAccesses = 0
  /\ validateRuleGroup([group EXCEPT !.maxAccesses = 1])

\* C38: a rule group with maxAccesses = 0 is a valid rule group:
\* validateRuleGroup accepts it and saveConfiguration stores a configuration
\* that contains it.
C38_CompleteBlockIsSaved ==
  (/\ call.op = "saveConfiguration"
   /\ ~call.arg.isNull
   /\ call.arg.hasGroups
   /\ \E i \in 1..Len(call.arg.groups) : CompleteBlock(call.arg.groups[i])
   /\ \A i \in 1..Len(call.arg.groups) :
        CompleteBlock(call.arg.groups[i]) \/ validateRuleGroup(call.arg.groups[i]))
    => /\ \A i \in 1..Len(call.arg.groups) : validateRuleGroup(call.arg.groups[i])
       /\ ~call.threw
       /\ configuration = call.arg

====
